---- MODULE Spec2Model ----
(***************************************************************************)
(* Compas2D: the canvas construction state machine (src/ui/canvas.py), the *)
(* DXF codec (src/dxf_handler.py) and the file operations of the main      *)
(* window (src/main.py).                                                   *)
(*                                                                         *)
(* Conventions of the model                                                *)
(*  - A point (QPointF) is a pair <<x, y>> of integers in plane units;     *)
(*    None is NoPoint.  Clicks are grid-snapped, so they are multiples of  *)
(*    grid_size.  Float results (hypot, circumcentre) are rounded down to  *)
(*    whole plane units.                                                   *)
(*  - A shape is a record whose "type" is the Python class name and whose  *)
(*    other fields are the attributes the source reads (points,            *)
(*    start_point, center, radius, rect, ...).  The pen attributes         *)
(*    (colour, line type, thickness) are translated by functions of their  *)
(*    own, which are modelled on a record of the three; the render-only    *)
(*    fields temp_point, cursor_position and highlight_index are not part  *)
(*    of the state.                                                        *)
(*  - A thickness is a whole number of hundredths of a millimetre, an      *)
(*    angle a whole number of degrees.                                     *)
(*  - Python list identity matters in spline_bezier mode: canvas.py:1012   *)
(*    binds self.points to the very list held by current_shape.  "alias"   *)
(*    records which object shares its list with self.points.               *)
(***************************************************************************)
EXTENDS Integers, Sequences, FiniteSets, TLC

\* ------------------------------------------------------------------ bounds
MaxCell == 2
MaxShapes == 1
MaxPts == 3
MaxItems == 2
MaxCoord == 2
MaxTurns == 2
MaxFine == 120
MaxUlps == 2

\* ------------------------------------------------------- program constants
grid_size == 50
MinSides == 3
SpinnerMax == 10

VARIABLES
    drawingMode,     \* Canvas.drawingMode
    shapes,          \* Canvas.shapes
    current_shape,   \* Canvas.current_shape
    points,          \* Canvas.points
    centerPoint,     \* Canvas.centerPoint
    radius_point,    \* Canvas.radius_point
    start_point,     \* Canvas.start_point
    numSides,        \* Canvas.numSides
    alias,           \* 0: self.points is a list of its own; -1: it is
                     \* current_shape.points; k > 0: it is shapes[k].points
    clicks,          \* history: left clicks of the construction in progress
    current_file,    \* MainWindow.current_file
    disk,            \* the DXF files the file dialogs can name
    call,            \* a call of a codec or kernel function: its name and
                     \* its arguments
    ret,             \* what the call returned, NoReturn until it has
    highlighted_shape_index,
                     \* Canvas.highlighted_shape_index: a position in
                     \* shapes (from 1), NoIndex for None
    selected_at      \* history: where in shapes the object is that the user
                     \* selected last; 0 without a selection, -1 once the
                     \* object has left the list

vars == <<drawingMode, shapes, current_shape, points, centerPoint,
          radius_point, start_point, numSides, alias, clicks,
          current_file, disk, call, ret, highlighted_shape_index, selected_at>>

fileVars == <<current_file, disk>>
kernelVars == <<call, ret>>
treeVars == <<highlighted_shape_index, selected_at>>

\* highlighted_shape_index = None
NoIndex == 0

\* no function is being called
NoCall == [fn |-> "none"]
NoReturn == [returned |-> FALSE]

\* ------------------------------------------------------------------ points
NoPoint == <<>>
NoShape == [type |-> "None"]

\* Grid-snapped click positions (snapToGrid): the diagonal cells, which are
\* collinear, and one cell off the diagonal.
Clicks ==
    {<<i * grid_size, i * grid_size>> : i \in 0..MaxCell}
        \cup {<<2 * grid_size, 0>>}

\* PySide6 maps bool(QPointF) to "not isNull()": the origin is falsy.
Truthy(p) == p # NoPoint /\ p # <<0, 0>>

Abs(n) == IF n < 0 THEN -n ELSE n
Min2(a, b) == IF a < b THEN a ELSE b
Max2(a, b) == IF a < b THEN b ELSE a

RECURSIVE SqrtStep(_, _)
\* Newton's iteration downwards from x >= floor(sqrt(n))
SqrtStep(n, x) ==
    LET y == (x + n \div x) \div 2
    IN  IF y >= x THEN x ELSE SqrtStep(n, y)

\* floor(sqrt(n)) for n >= 0
ISqrt(n) == IF n = 0 THEN 0 ELSE SqrtStep(n, n)

\* math.hypot(dx, dy), rounded down
hypot(dx, dy) == ISqrt(dx * dx + dy * dy)

\* Floor division for a possibly negative numerator and any non-zero divisor.
FloorDiv(a, b) == IF b > 0 THEN a \div b ELSE (-a) \div (-b)

\* --------------------------------------------------------------- QRectF
\* QRectF(topLeft, bottomRight)
QRectFromPoints(p, q) == [x |-> p[1], y |-> p[2], w |-> q[1] - p[1], h |-> q[2] - p[2]]

\* QRectF.normalized(): a rectangle with non-negative width and height
normalized(r) ==
    [x |-> IF r.w < 0 THEN r.x + r.w ELSE r.x,
     y |-> IF r.h < 0 THEN r.y + r.h ELSE r.y,
     w |-> Abs(r.w),
     h |-> Abs(r.h)]

topLeft(r) == <<r.x, r.y>>
topRight(r) == <<r.x + r.w, r.y>>
bottomRight(r) == <<r.x + r.w, r.y + r.h>>
bottomLeft(r) == <<r.x, r.y + r.h>>

\* ------------------------------------------------------------ shape model
Line(s, e) == [type |-> "Line", start_point |-> s, end_point |-> e]
Circle(c, r) == [type |-> "Circle", center |-> c, radius |-> r]
Rectangle(r) == [type |-> "Rectangle", rect |-> r]
CircleByThreePoints(pts) == [type |-> "CircleByThreePoints", points |-> pts]
ArcByThreePoints(pts) == [type |-> "ArcByThreePoints", points |-> pts]
ArcByRadiusChord(c, rp, cp) ==
    [type |-> "ArcByRadiusChord", center |-> c, radius_point |-> rp, chord_point |-> cp]
Polygon(pts) == [type |-> "Polygon", points |-> pts]
BezierSpline(pts) ==
    [type |-> "BezierSpline", points |-> pts, editing_index |-> 0, is_completed |-> FALSE]
SegmentSpline(pts) == [type |-> "SegmentSpline", points |-> pts]

HasPoints(s) ==
    s.type \in {"CircleByThreePoints", "ArcByThreePoints", "Polygon",
                "BezierSpline", "SegmentSpline"}

\* ------------------------------------------------- three-point solver
\* calculate_arc_three_points: the determinant of the two bisector normals.
\* On integer coordinates abs(det) < 1e-6 is det = 0.
BisectorDet(p1, p2, p3) ==
    LET n1x == p2[2] - p1[2]
        n1y == p1[1] - p2[1]
        n2x == p3[2] - p2[2]
        n2y == p2[1] - p3[1]
    IN  n1x * n2y - n1y * n2x

Collinear(pts) == BisectorDet(pts[1], pts[2], pts[3]) = 0

\* calculate_arc_three_points: the centre mid1 + t * norm1, or NoPoint.
\* The midpoints are kept doubled so that the arithmetic stays integral.
ThreePointCenter(pts) ==
    LET p1 == pts[1]
        p2 == pts[2]
        p3 == pts[3]
        n1x == p2[2] - p1[2]
        n1y == p1[1] - p2[1]
        n2x == p3[2] - p2[2]
        n2y == p2[1] - p3[1]
        det == n1x * n2y - n1y * n2x
        m1x2 == p1[1] + p2[1]
        m1y2 == p1[2] + p2[2]
        m2x2 == p2[1] + p3[1]
        m2y2 == p2[2] + p3[2]
        tnum2 == (m2x2 - m1x2) * n2y - (m2y2 - m1y2) * n2x
    IN  IF Collinear(pts)
        THEN NoPoint
        ELSE <<FloorDiv(m1x2 * det + tnum2 * n1x, 2 * det),
               FloorDiv(m1y2 * det + tnum2 * n1y, 2 * det)>>

distance(p, q) == hypot(p[1] - q[1], p[2] - q[2])

\* ------------------------------------------------------- regular polygon
\* cos and sin of 360/n degrees in thousandths, for the side counts the
\* dialog is asked for in this model.
SideChoices == {MinSides, MinSides + 1}

StepCos(n) == IF n = 3 THEN -500 ELSE 0
StepSin(n) == IF n = 3 THEN 866 ELSE 1000

\* 1 / cos(pi / n) in thousandths
InvCosHalf(n) == IF n = 3 THEN 2000 ELSE 1414

RECURSIVE RotateSteps(_, _, _)
\* the vector v (thousandths) turned i times by 360/n degrees
RotateSteps(v, n, i) ==
    IF i = 0
    THEN v
    ELSE LET w == RotateSteps(v, n, i - 1)
         IN  <<FloorDiv(StepCos(n) * w[1] - StepSin(n) * w[2], 1000),
               FloorDiv(StepSin(n) * w[1] + StepCos(n) * w[2], 1000)>>

\* Canvas.calculate_regular_polygon: num_sides vertices at equal angular
\* steps from the reference point, counter-clockwise; the circumscribed
\* mode inflates the vertex radius by 1 / cos(pi / num_sides).
calculate_regular_polygon(center, rp, num_sides, mode) ==
    LET scale == IF mode = "polygon_circumscribed" THEN InvCosHalf(num_sides) ELSE 1000
        v0 == <<(rp[1] - center[1]) * scale, (rp[2] - center[2]) * scale>>
    IN  [i \in 1..num_sides |->
            LET v == RotateSteps(v0, num_sides, i - 1)
            IN  <<center[1] + FloorDiv(v[1], 1000), center[2] + FloorDiv(v[2], 1000)>>]

\* ------------------------------------------------------------ the canvas
Modes ==
    {"line", "circle_center_radius", "circle_three_points", "arc_three_points",
     "arc_radius_chord", "polygon", "polygon_inscribed", "polygon_circumscribed",
     "rectangle_sides", "rectangle_center", "spline_bezier", "spline_segments"}

\* the tools whose point sequence has a fixed length
Arity(mode) ==
    CASE mode \in {"line", "circle_center_radius", "rectangle_sides", "rectangle_center"} -> 2
      [] mode \in {"circle_three_points", "arc_three_points", "arc_radius_chord"} -> 3
      [] OTHER -> 0

FixedModes == {m \in Modes : Arity(m) > 0}

\* Canvas.__init__
CanvasInit ==
    /\ drawingMode = "line"
    /\ shapes = <<>>
    /\ current_shape = NoShape
    /\ points = <<>>
    /\ centerPoint = NoPoint
    /\ radius_point = NoPoint
    /\ start_point = NoPoint
    /\ numSides = 0
    /\ alias = 0
    /\ clicks = 0
    /\ highlighted_shape_index = NoIndex
    /\ selected_at = 0

\* An in-place change of the list self.points (append, clear) is seen by
\* every object that holds the same list.
SharedInShapes(sh, newpts) ==
    IF alias > 0 THEN [sh EXCEPT ![alias].points = newpts] ELSE sh

SharedInCurrent(cs, newpts) ==
    IF alias = -1 THEN [cs EXCEPT !.points = newpts] ELSE cs

\* history: one more left click of a fixed-arity construction
CountClick(completed) ==
    clicks' = IF completed \/ drawingMode \notin FixedModes THEN 0 ELSE clicks + 1

\* ------------------------------------------- mousePressEvent, left button
\* Each Left* operator is the branch of mousePressEvent for one drawing mode.

LeftLine(coord) ==
    IF points = <<>>
    THEN /\ points' = <<coord>>
         /\ alias' = 0
         /\ CountClick(FALSE)
         /\ UNCHANGED <<shapes, current_shape>>
    ELSE LET appended == Append(points, coord)
         IN  IF Len(appended) = 2
             THEN /\ Len(shapes) < MaxShapes
                  /\ shapes' = Append(SharedInShapes(shapes, <<>>),
                                      Line(appended[1], appended[2]))
                  /\ current_shape' = NoShape
                  /\ points' = <<>>
                  /\ CountClick(TRUE)
                  /\ UNCHANGED alias
             ELSE /\ Len(appended) <= MaxPts
                  /\ points' = appended
                  /\ shapes' = SharedInShapes(shapes, appended)
                  /\ CountClick(FALSE)
                  /\ UNCHANGED <<current_shape, alias>>

LeftCircleCenterRadius(coord) ==
    IF centerPoint = NoPoint
    THEN /\ centerPoint' = coord
         /\ CountClick(FALSE)
         /\ UNCHANGED <<shapes, current_shape>>
    ELSE LET radius == hypot(coord[1] - centerPoint[1], coord[2] - centerPoint[2])
         IN  /\ Len(shapes) < MaxShapes
             /\ shapes' = Append(shapes, Circle(centerPoint, radius))
             /\ current_shape' = NoShape
             /\ centerPoint' = NoPoint
             /\ CountClick(TRUE)

LeftRectangleSides(coord) ==
    IF current_shape = NoShape
    THEN /\ start_point' = coord
         /\ current_shape' = Rectangle(QRectFromPoints(coord, coord))
         /\ CountClick(FALSE)
         /\ UNCHANGED shapes
    ELSE /\ Len(shapes) < MaxShapes
         /\ shapes' = Append(shapes, current_shape)
         /\ current_shape' = NoShape
         /\ start_point' = NoPoint
         /\ CountClick(TRUE)

\* circle_three_points and arc_three_points: the shape of the mode is
\* appended on the third point whatever the points are.
LeftThreePoints(coord) ==
    LET appended == Append(points, coord)
        make(pts) == IF drawingMode = "circle_three_points"
                     THEN CircleByThreePoints(pts)
                     ELSE ArcByThreePoints(pts)
    IN  IF Len(appended) = 3
        THEN /\ Len(shapes) < MaxShapes
             /\ shapes' = Append(SharedInShapes(shapes, <<>>), make(appended))
             /\ current_shape' = NoShape
             /\ points' = <<>>
             /\ CountClick(TRUE)
        ELSE /\ Len(appended) <= MaxPts
             /\ points' = appended
             /\ shapes' = SharedInShapes(shapes, appended)
             /\ CountClick(FALSE)
             /\ UNCHANGED current_shape

LeftArcRadiusChord(coord) ==
    IF centerPoint = NoPoint
    THEN /\ centerPoint' = coord
         /\ CountClick(FALSE)
         /\ UNCHANGED <<shapes, current_shape, radius_point>>
    ELSE IF radius_point = NoPoint
    THEN /\ radius_point' = coord
         /\ CountClick(FALSE)
         /\ UNCHANGED <<shapes, current_shape, centerPoint>>
    ELSE /\ Len(shapes) < MaxShapes
         /\ shapes' = Append(shapes, ArcByRadiusChord(centerPoint, radius_point, coord))
         /\ current_shape' = NoShape
         /\ centerPoint' = NoPoint
         /\ radius_point' = NoPoint
         /\ CountClick(TRUE)

\* polygon and spline_segments: the click only extends the point list
LeftAppendPoint(coord) ==
    /\ Len(points) < MaxPts
    /\ points' = Append(points, coord)
    /\ shapes' = SharedInShapes(shapes, Append(points, coord))
    /\ CountClick(FALSE)
    /\ UNCHANGED current_shape

\* polygon_inscribed and polygon_circumscribed; (sides, ok) is the answer of
\* QInputDialog.getInt(..., 3, 3, 100, 1)
LeftRegularPolygon(coord, sides, ok) ==
    IF centerPoint = NoPoint
    THEN /\ centerPoint' = coord
         /\ CountClick(FALSE)
         /\ UNCHANGED <<shapes, current_shape, numSides>>
    ELSE IF numSides = 0 /\ ~ok
    THEN /\ centerPoint' = NoPoint
         /\ numSides' = 0
         /\ CountClick(FALSE)
         /\ UNCHANGED <<shapes, current_shape>>
    ELSE LET n == IF numSides = 0 THEN sides ELSE numSides
         IN  /\ Len(shapes) < MaxShapes
             /\ shapes' = Append(shapes,
                    Polygon(calculate_regular_polygon(centerPoint, coord, n, drawingMode)))
             /\ current_shape' = NoShape
             /\ centerPoint' = NoPoint
             /\ numSides' = 0
             /\ CountClick(TRUE)

LeftRectangleCenter(coord) ==
    IF centerPoint = NoPoint
    THEN /\ centerPoint' = coord
         /\ CountClick(FALSE)
         /\ UNCHANGED <<shapes, current_shape>>
    ELSE LET width == Abs(coord[1] - centerPoint[1]) * 2
             height == Abs(coord[2] - centerPoint[2]) * 2
             rect == [x |-> centerPoint[1] - width \div 2,
                      y |-> centerPoint[2] - height \div 2,
                      w |-> width, h |-> height]
         IN  /\ Len(shapes) < MaxShapes
             /\ shapes' = Append(shapes, Rectangle(normalized(rect)))
             /\ current_shape' = NoShape
             /\ centerPoint' = NoPoint
             /\ CountClick(TRUE)

\* spline_bezier; hit is what current_shape.get_closest_point(coord) returns:
\* 0 for None, else the index of a control point.
LeftSplineBezier(coord, hit) ==
    IF current_shape.type = "BezierSpline" /\ ~current_shape.is_completed /\ hit # 0
    THEN /\ hit \in 1..Len(current_shape.points)
         /\ current_shape' = [current_shape EXCEPT !.editing_index = hit]
         /\ CountClick(FALSE)
         /\ UNCHANGED <<shapes, points, alias>>
    ELSE /\ hit = 0
         /\ IF current_shape = NoShape \/ points = <<>>
            THEN /\ points' = <<coord>>
                 /\ alias' = 0
                 /\ current_shape' = BezierSpline(<<coord>>)
                 /\ UNCHANGED shapes
            ELSE /\ Len(points) < MaxPts
                 /\ points' = Append(points, coord)
                 /\ shapes' = SharedInShapes(shapes, Append(points, coord))
                 /\ current_shape' = [current_shape EXCEPT !.points = Append(points, coord)]
                 /\ alias' = IF alias = -1 THEN 0 ELSE alias
         /\ CountClick(FALSE)

\* Canvas.mousePressEvent, event.button() == Qt.LeftButton
mousePressLeft(coord, sides, ok, hit) ==
    /\ CASE drawingMode = "line" ->
              LeftLine(coord)
              /\ UNCHANGED <<centerPoint, radius_point, start_point, numSides>>
         [] drawingMode = "circle_center_radius" ->
              LeftCircleCenterRadius(coord)
              /\ UNCHANGED <<points, alias, radius_point, start_point, numSides>>
         [] drawingMode = "rectangle_sides" ->
              LeftRectangleSides(coord)
              /\ UNCHANGED <<points, alias, centerPoint, radius_point, numSides>>
         [] drawingMode = "circle_three_points" ->
              LeftThreePoints(coord)
              /\ UNCHANGED <<alias, centerPoint, radius_point, start_point, numSides>>
         [] drawingMode = "arc_three_points" ->
              LeftThreePoints(coord)
              /\ UNCHANGED <<alias, centerPoint, radius_point, start_point, numSides>>
         [] drawingMode = "arc_radius_chord" ->
              LeftArcRadiusChord(coord)
              /\ UNCHANGED <<points, alias, start_point, numSides>>
         [] drawingMode \in {"polygon", "spline_segments"} ->
              LeftAppendPoint(coord)
              /\ UNCHANGED <<alias, centerPoint, radius_point, start_point, numSides>>
         [] drawingMode \in {"polygon_inscribed", "polygon_circumscribed"} ->
              LeftRegularPolygon(coord, sides, ok)
              /\ UNCHANGED <<points, alias, radius_point, start_point>>
         [] drawingMode = "rectangle_center" ->
              LeftRectangleCenter(coord)
              /\ UNCHANGED <<points, alias, radius_point, start_point, numSides>>
         [] drawingMode = "spline_bezier" ->
              LeftSplineBezier(coord, hit)
              /\ UNCHANGED <<centerPoint, radius_point, start_point, numSides>>
    /\ UNCHANGED <<drawingMode, fileVars, kernelVars, treeVars>>

\* Canvas.mousePressEvent, event.button() == Qt.RightButton: finish a
\* polygon or spline, otherwise "cancel current drawing"
RightFinishes ==
    \/ drawingMode = "polygon" /\ Len(points) >= 3
    \/ drawingMode = "spline_bezier" /\ Len(points) >= 3
    \/ drawingMode = "spline_segments" /\ Len(points) >= 2

mousePressRight ==
    /\ IF drawingMode = "polygon" /\ Len(points) >= 3
       THEN /\ Len(shapes) < MaxShapes
            /\ shapes' = Append(SharedInShapes(shapes, <<>>), Polygon(points))
            /\ points' = <<>>
            /\ UNCHANGED alias
       ELSE IF drawingMode = "spline_bezier" /\ Len(points) >= 3
       THEN /\ IF current_shape.type = "BezierSpline"
               THEN /\ Len(shapes) < MaxShapes
                    /\ shapes' = Append(shapes,
                           [BezierSpline(current_shape.points) EXCEPT !.is_completed = TRUE])
               ELSE UNCHANGED shapes
            /\ points' = <<>>
            /\ alias' = 0
       ELSE IF drawingMode = "spline_segments" /\ Len(points) >= 2
       THEN /\ Len(shapes) < MaxShapes
            /\ shapes' = Append(SharedInShapes(shapes, <<>>), SegmentSpline(points))
            /\ points' = <<>>
            /\ UNCHANGED alias
       ELSE /\ points' = <<>>
            /\ shapes' = SharedInShapes(shapes, <<>>)
            /\ alias' = IF alias = -1 THEN 0 ELSE alias
    /\ current_shape' = NoShape
    /\ clicks' = 0
    /\ UNCHANGED <<drawingMode, centerPoint, radius_point, start_point, numSides, fileVars, kernelVars, treeVars>>

\* Canvas.mouseMoveEvent (not panning): the preview shapes, and the drag of
\* a Bezier control point
mouseMoveEvent(coord) ==
    /\ CASE drawingMode = "line" /\ Len(points) = 1 ->
              /\ current_shape' = Line(points[1], coord)
              /\ UNCHANGED <<points, alias>>
         [] drawingMode = "circle_center_radius" /\ Truthy(centerPoint) ->
              /\ current_shape' = Circle(centerPoint,
                     hypot(coord[1] - centerPoint[1], coord[2] - centerPoint[2]))
              /\ UNCHANGED <<points, alias>>
         [] drawingMode = "rectangle_sides" /\ Truthy(start_point) ->
              /\ current_shape' = Rectangle(normalized(QRectFromPoints(start_point, coord)))
              /\ UNCHANGED <<points, alias>>
         [] /\ drawingMode = "spline_bezier"
            /\ current_shape.type = "BezierSpline"
            /\ current_shape.editing_index # 0 ->
              LET moved == [current_shape.points EXCEPT ![current_shape.editing_index] = coord]
              IN  /\ current_shape' = [current_shape EXCEPT !.points = moved]
                  /\ points' = moved
                  /\ alias' = -1
         [] OTHER -> UNCHANGED <<current_shape, points, alias>>
    /\ UNCHANGED <<drawingMode, shapes, centerPoint, radius_point, start_point,
                   numSides, clicks, fileVars, kernelVars, treeVars>>

\* Canvas.mouseReleaseEvent, left button: the drag of a control point ends
mouseReleaseEvent ==
    /\ drawingMode = "spline_bezier"
    /\ current_shape.type = "BezierSpline"
    /\ current_shape' = [current_shape EXCEPT !.editing_index = 0]
    /\ UNCHANGED <<drawingMode, shapes, points, centerPoint, radius_point,
                   start_point, numSides, alias, clicks, fileVars, kernelVars, treeVars>>

\* The statements shared by Canvas.cancelCurrentShape and the Escape branch
\* of Canvas.keyPressEvent: every construction buffer is reset.
ClearConstruction ==
    /\ points' = <<>>
    /\ shapes' = SharedInShapes(shapes, <<>>)
    /\ alias' = IF alias = -1 THEN 0 ELSE alias
    /\ current_shape' = NoShape
    /\ centerPoint' = NoPoint
    /\ radius_point' = NoPoint
    /\ start_point' = NoPoint
    /\ numSides' = 0
    /\ clicks' = 0

\* Canvas.cancelCurrentShape, offered by showContextMenu in three modes
cancelCurrentShape ==
    /\ drawingMode \in {"line", "circle_center_radius", "rectangle_sides"}
    /\ ClearConstruction
    /\ UNCHANGED <<drawingMode, fileVars, kernelVars, treeVars>>

\* Canvas.keyPressEvent, Qt.Key_Escape
keyPressEscape ==
    /\ ClearConstruction
    /\ UNCHANGED <<drawingMode, fileVars, kernelVars, treeVars>>

\* a variant of the Z key that removes the oldest shape instead of the last
keyPressZ_oldest ==
    /\ shapes' = IF shapes # <<>> THEN Tail(shapes) ELSE shapes
    /\ alias' = IF alias = 1 THEN 0 ELSE IF alias > 1 THEN alias - 1 ELSE alias
    /\ selected_at' = IF selected_at = 1 THEN -1
                      ELSE IF selected_at > 1 THEN selected_at - 1
                      ELSE selected_at
    /\ UNCHANGED <<drawingMode, current_shape, points, centerPoint, radius_point,
                   start_point, numSides, clicks, fileVars, kernelVars,
                   highlighted_shape_index>>

\* Canvas.keyPressEvent, Qt.Key_Z: pop the last shape
keyPressZ ==
    /\ shapes' = IF shapes # <<>> THEN SubSeq(shapes, 1, Len(shapes) - 1) ELSE shapes
    /\ alias' = IF alias > 0 /\ alias = Len(shapes) THEN 0 ELSE alias
    /\ selected_at' = IF shapes # <<>> /\ selected_at = Len(shapes) THEN -1 ELSE selected_at
    /\ UNCHANGED <<drawingMode, current_shape, points, centerPoint, radius_point,
                   start_point, numSides, clicks, fileVars, kernelVars,
                   highlighted_shape_index>>

\* Canvas.setDrawingMode: a pending Bezier spline with at least 3 points is
\* kept, then every buffer is cleared (self.points.clear() is in place)
setDrawingMode(mode) ==
    /\ IF /\ drawingMode = "spline_bezier"
          /\ current_shape.type = "BezierSpline"
          /\ Len(current_shape.points) >= 3
       THEN /\ Len(shapes) < MaxShapes
            /\ shapes' = Append(SharedInShapes(shapes, <<>>),
                   [SharedInCurrent(current_shape, <<>>) EXCEPT !.editing_index = 0])
            /\ alias' = IF alias = -1 THEN Len(shapes) + 1 ELSE alias
       ELSE /\ shapes' = SharedInShapes(shapes, <<>>)
            /\ alias' = IF alias = -1 THEN 0 ELSE alias
    /\ points' = <<>>
    /\ current_shape' = NoShape
    /\ centerPoint' = NoPoint
    /\ radius_point' = NoPoint
    /\ start_point' = NoPoint
    /\ numSides' = 0
    /\ clicks' = 0
    /\ drawingMode' = mode
    /\ UNCHANGED <<fileVars, kernelVars, treeVars>>

\* ------------------------------------------------------------- angles
\* Angles are whole degrees.  atan of y/x for 0 <= y <= x, x > 0, rounded
\* (exact at 0 and 45 degrees).
AtanOctant(y, x) == (y * (4500 * x + 1564 * (x - y)) + 50 * x * x) \div (100 * x * x)

AtanQuadrant(y, x) == IF y <= x THEN AtanOctant(y, x) ELSE 90 - AtanOctant(x, y)

\* math.degrees(math.atan2(y, x)), in -180..180
Atan2Deg(y, x) ==
    IF x = 0 /\ y = 0 THEN 0
    ELSE IF y >= 0
    THEN (IF x >= 0 THEN AtanQuadrant(y, x) ELSE 180 - AtanQuadrant(y, -x))
    ELSE (IF x >= 0 THEN -AtanQuadrant(-y, x) ELSE AtanQuadrant(-y, -x) - 180)

\* sin and cos of d degrees in thousandths (exact at multiples of 90)
SinHalfTurn(d) == (4000 * d * (180 - d)) \div (40500 - d * (180 - d))
Sin1000(d) == LET m == d % 360 IN IF m <= 180 THEN SinHalfTurn(m) ELSE -SinHalfTurn(m - 180)
Cos1000(d) == Sin1000(d + 90)

\* ------------------------------------ rotation, core/transformations.py
\* cos(radians(angle)) and sin(radians(angle)) in thousandths.  37 and 53
\* name the angles atan(3/4) = 36.87 and atan(4/3) = 53.13 degrees of the
\* 3-4-5 triangle, whose cosine and sine are 0.8 and 0.6 exactly; with the
\* multiples of 90 degrees they are the angles the thousandths are exact at.
cos(angle) ==
    LET m == angle % 360
    IN  CASE m \in {37, 323} -> 800
          [] m \in {53, 307} -> 600
          [] OTHER -> Cos1000(m)

sin(angle) ==
    LET m == angle % 360
    IN  CASE m = 37 -> 600
          [] m = 323 -> -600
          [] m = 53 -> 800
          [] m = 307 -> -800
          [] OTHER -> Sin1000(m)

\* a variant of rotate_point that does not translate the point back
rotate_point_about_origin(point, center, angle) ==
    LET translated_x == point[1] - center[1]
        translated_y == point[2] - center[2]
    IN  <<FloorDiv(cos(angle) * translated_x - sin(angle) * translated_y, 1000),
          FloorDiv(sin(angle) * translated_x + cos(angle) * translated_y, 1000)>>

\* rotate_point(point, center, angle): the point turned counter-clockwise
\* by angle degrees about center
rotate_point(point, center, angle) ==
    LET translated_x == point[1] - center[1]
        translated_y == point[2] - center[2]
    IN  <<FloorDiv(cos(angle) * translated_x - sin(angle) * translated_y, 1000) + center[1],
          FloorDiv(sin(angle) * translated_x + cos(angle) * translated_y, 1000) + center[2]>>

\* The floating-point evaluation of rotate_point.  The exact result is
\* rotate_point; error_in and the errors returned bound, in units of 2^-40
\* plane units (9.1e-13), how far the float coordinates are from it.  For
\* coordinates of magnitude up to 1000 one call adds at most MaxUlps units
\* to the rotated incoming error, which is at most twice error_in.  Nothing
\* is rounded when the point is the pivot (cos * 0 - sin * 0 + c = c) or when
\* the angle is 0 (cos = 1, sin = 0 and (p - c) + c = p on the click grid);
\* at the other multiples of 90 degrees the float cosine or sine is not 0
\* (cos(radians(90)) = 6.1e-17), so the sum is rounded as at any angle.
RoundingError(point, center, angle, error_in) ==
    IF angle = 0 \/ (point = center /\ error_in = 0)
    THEN {error_in}
    ELSE 0..(2 * error_in + MaxUlps)

\* ------------------------------------------ three-point arcs of core/arc.py
\* None where a number is expected
NoNumber == <<>>

\* a variant of calculate_arc_three_points that takes the first point for the
\* centre of collinear points
calculate_arc_three_points_degenerate(pts) ==
    LET center == IF Collinear(pts) THEN pts[1] ELSE ThreePointCenter(pts)
    IN  [center |-> center,
         radius |-> distance(center, pts[1]),
         start_angle |-> Atan2Deg(pts[1][2] - center[2], pts[1][1] - center[1]),
         end_angle |-> Atan2Deg(pts[3][2] - center[2], pts[3][1] - center[1])]

\* calculate_arc_three_points(points): (center, radius, start_angle,
\* end_angle), or four times None when abs(det) < 1e-6
calculate_arc_three_points(pts) ==
    IF Collinear(pts)
    THEN [center |-> NoPoint, radius |-> NoNumber,
          start_angle |-> NoNumber, end_angle |-> NoNumber]
    ELSE LET center == ThreePointCenter(pts)
         IN  [center |-> center,
              radius |-> distance(center, pts[1]),
              start_angle |-> Atan2Deg(pts[1][2] - center[2], pts[1][1] - center[1]),
              end_angle |-> Atan2Deg(pts[3][2] - center[2], pts[3][1] - center[1])]

\* draw_arc_using_parametric_equation: the scene with the path of the arc
\* added, or the scene as it was when the radius is not positive
draw_arc_using_parametric_equation(scene, center, radius, start_angle, end_angle) ==
    IF radius <= 0
    THEN scene
    ELSE Append(scene, [item |-> "path", center |-> center, radius |-> radius,
                        start_angle |-> start_angle, end_angle |-> end_angle])

\* draw_arc_three_points(scene, points, pen): the scene afterwards
draw_arc_three_points(scene, pts) ==
    IF Len(pts) # 3
    THEN scene
    ELSE LET result == calculate_arc_three_points(pts)
         IN  IF result.center = NoPoint
             THEN scene
             ELSE draw_arc_using_parametric_equation(scene, result.center, result.radius,
                      result.start_angle, result.end_angle)

\* the upper end of the spin box of RadiusDialog
RadiusMax == 10000

\* RadiusDialog(min_radius).get_radius() after the user typed a value: the
\* spin box keeps its value within [min_radius, RadiusMax], and within
\* [min_radius, min_radius] when min_radius is above RadiusMax
get_radius(min_radius, typed) ==
    Max2(min_radius, Min2(typed, Max2(min_radius, RadiusMax)))

\* draw_arc_radius_chord(scene, points, pen): the scene afterwards; accepted
\* tells whether the dialog was closed with OK, typed is what the user typed
draw_arc_radius_chord(scene, pts, accepted, typed) ==
    IF Len(pts) # 2
    THEN scene
    ELSE LET center == pts[1]
             chord_end == pts[2]
             min_radius == distance(center, chord_end)
             radius == get_radius(min_radius, typed)
             chord_angle == Atan2Deg(chord_end[2] - center[2], chord_end[1] - center[1])
             start_angle == chord_angle
             end_angle == start_angle + 180
         IN  IF ~accepted
             THEN scene
             ELSE IF start_angle > end_angle
             THEN draw_arc_using_parametric_equation(scene, center, radius,
                      end_angle, start_angle)
             ELSE draw_arc_using_parametric_equation(scene, center, radius,
                      start_angle, end_angle)

\* --------------------------------------------- derived shape geometry
\* CircleByThreePoints.calculate_circle: (center, radius), or (None, None)
\* for collinear points
calculate_circle(shape) ==
    LET c == ThreePointCenter(shape.points)
    IN  IF c = NoPoint
        THEN [center |-> NoPoint, radius |-> 0]
        ELSE [center |-> c, radius |-> distance(c, shape.points[1])]

\* ArcByThreePoints.calculate_arc: (center, radius, start_angle, span_angle);
\* a span above 180 degrees is replaced by the complementary arc
calculate_arc_3p(shape) ==
    LET c == ThreePointCenter(shape.points)
    IN  IF c = NoPoint
        THEN [center |-> NoPoint, radius |-> 0, start_angle |-> 0, span_angle |-> 0]
        ELSE LET p1 == shape.points[1]
                 p3 == shape.points[3]
                 start == Atan2Deg(p1[2] - c[2], p1[1] - c[1])
                 end == Atan2Deg(p3[2] - c[2], p3[1] - c[1])
                 span == (end - start) % 360
             IN  [center |-> c,
                  radius |-> distance(c, p1),
                  start_angle |-> IF span > 180 THEN (start + 180) % 360 ELSE start,
                  span_angle |-> IF span > 180 THEN 360 - span ELSE span]

\* ArcByRadiusChord.calculate_arc: (radius, start_angle, span_angle), the
\* half circle centred on the chord direction
calculate_arc_rc(shape) ==
    LET chord_angle == Atan2Deg(shape.chord_point[2] - shape.center[2],
                                shape.chord_point[1] - shape.center[1])
    IN  [radius |-> distance(shape.center, shape.radius_point),
         start_angle |-> chord_angle - 90,
         span_angle |-> 180]

\* SegmentSpline.generate_spline_points: the path through the point list
generate_spline_points(shape) == shape.points

\* ------------------------------------------------------ Bezier evaluator
RECURSIVE factorial(_)
factorial(n) == IF n <= 0 THEN 1 ELSE n * factorial(n - 1)

binomial_coefficient(n, k) == factorial(n) \div (factorial(k) * factorial(n - k))

RECURSIVE Power(_, _)
Power(b, e) == IF e = 0 THEN 1 ELSE b * Power(b, e - 1)

RECURSIVE SumTo(_, _)
\* f[0] + ... + f[n]
SumTo(f, n) == IF n < 0 THEN 0 ELSE f[n] + SumTo(f, n - 1)

num_segments == 100

\* the sums x and y of bezier_point once the weights binom * factor are
\* known, rounded down to whole plane units; scale is num_segments ^ n
WeightedPoint(weight, pts, scale) ==
    <<FloorDiv(SumTo([i \in DOMAIN weight |-> weight[i] * pts[i + 1][1]], Len(pts) - 1), scale),
      FloorDiv(SumTo([i \in DOMAIN weight |-> weight[i] * pts[i + 1][2]], Len(pts) - 1), scale)>>

\* a variant of bezier_point that leaves the binomial coefficient out
bezier_point_unweighted(k, pts) ==
    LET n == Len(pts) - 1
    IN  WeightedPoint([i \in 0..n |-> Power(num_segments - k, n - i) * Power(k, i)],
                      pts, Power(num_segments, n))

\* bezier_point(t, points) at t = k / num_segments: the Bernstein sum
bezier_point(k, pts) ==
    LET n == Len(pts) - 1
    IN  WeightedPoint([i \in 0..n |-> binomial_coefficient(n, i)
                                          * Power(num_segments - k, n - i) * Power(k, i)],
                      pts, Power(num_segments, n))

\* ------------------------------------------------------------ DXF entities
\* What msp.add_line / add_circle / add_arc / add_polyline / add_lwpolyline /
\* add_spline put into the model space.
DxfLine(s, e) == [dxftype |-> "LINE", start |-> s, end |-> e]
DxfCircle(c, r) == [dxftype |-> "CIRCLE", center |-> c, radius |-> r]
DxfArc(c, r, a1, a2) ==
    [dxftype |-> "ARC", center |-> c, radius |-> r, start_angle |-> a1, end_angle |-> a2]
DxfPolyline(pts, closed) == [dxftype |-> "POLYLINE", vertices |-> pts, closed |-> closed]
DxfLwPolyline(pts) == [dxftype |-> "LWPOLYLINE", vertices |-> pts, closed |-> FALSE]
\* msp.add_spline(control_points, dxfattribs=...): the first parameter of
\* ezdxf's add_spline is fit_points, so the points become the fit points of
\* the SPLINE and its control points stay empty
DxfSpline(pts) == [dxftype |-> "SPLINE", control_points |-> <<>>, fit_points |-> pts]

\* The arc branch shared by both encoders: (start, span) to DXF's
\* counter-clockwise (start_angle, end_angle)
ArcEntity(center, radius, start_angle, span_angle) ==
    LET start_angle_deg == start_angle % 360
        span == IF span_angle >= 0 THEN span_angle % 360 ELSE (span_angle % 360) + 360
        end_angle_deg == (start_angle_deg + span) % 360
    IN  DxfArc(center, radius, start_angle_deg,
               IF end_angle_deg < start_angle_deg THEN end_angle_deg + 360 ELSE end_angle_deg)

RectCorners(rect) == <<topLeft(rect), topRight(rect), bottomRight(rect), bottomLeft(rect)>>

\* The body of the loop of save_to_dxf (R12): the entities one shape adds
simple_entities(shape) ==
    CASE shape.type = "Line" -> <<DxfLine(shape.start_point, shape.end_point)>>
      [] shape.type = "Circle" -> <<DxfCircle(shape.center, shape.radius)>>
      [] shape.type = "CircleByThreePoints" ->
            LET g == calculate_circle(shape)
            IN  IF Truthy(g.center) /\ g.radius # 0
                THEN <<DxfCircle(g.center, g.radius)>>
                ELSE <<>>
      [] shape.type = "ArcByThreePoints" ->
            LET g == calculate_arc_3p(shape)
            IN  IF Truthy(g.center) /\ g.radius # 0
                THEN <<ArcEntity(g.center, g.radius, g.start_angle, g.span_angle)>>
                ELSE <<>>
      [] shape.type = "ArcByRadiusChord" ->
            LET g == calculate_arc_rc(shape)
            IN  <<ArcEntity(shape.center, g.radius, g.start_angle, g.span_angle)>>
      [] shape.type = "Rectangle" -> <<DxfPolyline(RectCorners(shape.rect), TRUE)>>
      [] shape.type = "Polygon" ->
            IF shape.points # <<>>
            THEN <<DxfPolyline(shape.points,
                       Len(shape.points) > 1
                           /\ shape.points[1] = shape.points[Len(shape.points)])>>
            ELSE <<>>
      [] shape.type = "BezierSpline" ->
            IF Len(shape.points) >= 2
            THEN <<DxfPolyline([k \in 1..(num_segments + 1) |->
                                    bezier_point(k - 1, shape.points)], FALSE)>>
            ELSE <<>>
      [] shape.type = "SegmentSpline" ->
            IF generate_spline_points(shape) # <<>>
            THEN <<DxfPolyline(generate_spline_points(shape), FALSE)>>
            ELSE <<>>
      [] OTHER -> <<>>

\* The body of the loop of save_to_dxf_advanced (R2000)
advanced_entities(shape) ==
    CASE shape.type = "Line" -> <<DxfLine(shape.start_point, shape.end_point)>>
      [] shape.type = "Circle" -> <<DxfCircle(shape.center, shape.radius)>>
      [] shape.type = "CircleByThreePoints" ->
            LET g == calculate_circle(shape)
            IN  IF Truthy(g.center) /\ g.radius # 0
                THEN <<DxfCircle(g.center, g.radius)>>
                ELSE <<>>
      [] shape.type = "ArcByThreePoints" ->
            LET g == calculate_arc_3p(shape)
            IN  IF Truthy(g.center) /\ g.radius # 0
                THEN <<ArcEntity(g.center, g.radius, g.start_angle, g.span_angle)>>
                ELSE <<>>
      [] shape.type = "ArcByRadiusChord" ->
            LET g == calculate_arc_rc(shape)
            IN  <<ArcEntity(shape.center, g.radius, g.start_angle, g.span_angle)>>
      [] shape.type = "Rectangle" ->
            <<DxfLwPolyline(Append(RectCorners(shape.rect), topLeft(shape.rect)))>>
      [] shape.type = "Polygon" ->
            IF shape.points # <<>>
            THEN <<DxfLwPolyline(
                       IF Len(shape.points) > 1
                              /\ shape.points[1] # shape.points[Len(shape.points)]
                       THEN Append(shape.points, shape.points[1])
                       ELSE shape.points)>>
            ELSE <<>>
      [] shape.type = "BezierSpline" ->
            IF Len(shape.points) >= 2 THEN <<DxfSpline(shape.points)>> ELSE <<>>
      [] shape.type = "SegmentSpline" ->
            IF generate_spline_points(shape) # <<>>
            THEN <<DxfLwPolyline(generate_spline_points(shape))>>
            ELSE <<>>
      [] OTHER -> <<>>

RECURSIVE save_to_dxf(_)
\* save_to_dxf: the model space after the loop over the shapes, in order
save_to_dxf(shs) ==
    IF shs = <<>>
    THEN <<>>
    ELSE save_to_dxf(SubSeq(shs, 1, Len(shs) - 1)) \o simple_entities(shs[Len(shs)])

RECURSIVE save_to_dxf_advanced_reversed(_)
\* a variant of save_to_dxf_advanced that walks the shape list backwards
save_to_dxf_advanced_reversed(shs) ==
    IF shs = <<>>
    THEN <<>>
    ELSE advanced_entities(shs[Len(shs)])
             \o save_to_dxf_advanced_reversed(SubSeq(shs, 1, Len(shs) - 1))

RECURSIVE save_to_dxf_advanced(_)
\* save_to_dxf_advanced: the model space after the loop over the shapes
save_to_dxf_advanced(shs) ==
    IF shs = <<>>
    THEN <<>>
    ELSE save_to_dxf_advanced(SubSeq(shs, 1, Len(shs) - 1))
             \o advanced_entities(shs[Len(shs)])

\* ------------------------------------------------------------ the decoder
\* a variant of is_rectangle that tests two opposite corners only
is_rectangle_two_corners(pts) ==
    /\ Len(pts) = 4
    /\ \A i \in {0, 2} :
          LET p1 == pts[i + 1]
              p2 == pts[((i + 1) % 4) + 1]
              p3 == pts[((i + 2) % 4) + 1]
          IN  (p2[1] - p1[1]) * (p3[1] - p2[1]) + (p2[2] - p1[2]) * (p3[2] - p2[2]) = 0

\* is_rectangle(points): all four corners right-angled; on integer
\* coordinates abs(dot_product) > 1e-6 is dot_product # 0
is_rectangle(pts) ==
    /\ Len(pts) = 4
    /\ \A i \in 0..3 :
          LET p1 == pts[i + 1]
              p2 == pts[((i + 1) % 4) + 1]
              p3 == pts[((i + 2) % 4) + 1]
          IN  (p2[1] - p1[1]) * (p3[1] - p2[1]) + (p2[2] - p1[2]) * (p3[2] - p2[2]) = 0

RECURSIVE MinOf(_, _)
MinOf(pts, c) ==
    IF Len(pts) = 1 THEN pts[1][c] ELSE Min2(pts[1][c], MinOf(Tail(pts), c))

RECURSIVE MaxOf(_, _)
MaxOf(pts, c) ==
    IF Len(pts) = 1 THEN pts[1][c] ELSE Max2(pts[1][c], MaxOf(Tail(pts), c))

\* an entity whose attributes cannot be read: converting it raises
Raises(entity) == "raises" \in DOMAIN entity

\* convert_dxf_to_shape(entity, canvas): the shape, or NoShape for None
convert_dxf_to_shape(entity) ==
    CASE entity.dxftype = "LINE" -> Line(entity.start, entity.end)
      [] entity.dxftype = "CIRCLE" -> Circle(entity.center, entity.radius)
      [] entity.dxftype = "ARC" ->
            ArcByRadiusChord(entity.center,
                <<entity.center[1] + FloorDiv(entity.radius * Cos1000(entity.start_angle), 1000),
                  entity.center[2] + FloorDiv(entity.radius * Sin1000(entity.start_angle), 1000)>>,
                <<entity.center[1] + FloorDiv(entity.radius * Cos1000(entity.end_angle), 1000),
                  entity.center[2] + FloorDiv(entity.radius * Sin1000(entity.end_angle), 1000)>>)
      [] entity.dxftype \in {"LWPOLYLINE", "POLYLINE"} ->
            IF Len(entity.vertices) < 2
            THEN NoShape
            ELSE LET v == entity.vertices
                     pts == IF entity.closed /\ Len(v) > 1 /\ v[1] = v[Len(v)]
                            THEN SubSeq(v, 1, Len(v) - 1)
                            ELSE v
                 IN  IF Len(pts) = 4 /\ is_rectangle(pts)
                     THEN Rectangle([x |-> MinOf(pts, 1), y |-> MinOf(pts, 2),
                                     w |-> MaxOf(pts, 1) - MinOf(pts, 1),
                                     h |-> MaxOf(pts, 2) - MinOf(pts, 2)])
                     ELSE Polygon(pts)
      [] entity.dxftype = "SPLINE" -> BezierSpline(entity.control_points)
      [] OTHER -> NoShape

\* The loop of read_from_dxf over the model space: the shapes decoded so
\* far, or the marker "raised" once a conversion has raised
RECURSIVE ReadLoop(_, _)
ReadLoop(entities, loaded_shapes) ==
    IF entities = <<>>
    THEN [raised |-> FALSE, loaded_shapes |-> loaded_shapes]
    ELSE IF Raises(Head(entities))
    THEN [raised |-> TRUE, loaded_shapes |-> loaded_shapes]
    ELSE LET shape == convert_dxf_to_shape(Head(entities))
         IN  ReadLoop(Tail(entities),
                 IF shape # NoShape THEN Append(loaded_shapes, shape) ELSE loaded_shapes)

\* a variant of read_from_dxf that returns what was decoded before the error
read_from_dxf_partial(file) ==
    IF ~file.exists \/ ~file.readable
    THEN <<>>
    ELSE ReadLoop(file.entities, <<>>).loaded_shapes

\* read_from_dxf(filename, canvas): the loaded shapes; [] when ezdxf.readfile
\* or a conversion raises
read_from_dxf(file) ==
    IF ~file.exists \/ ~file.readable
    THEN <<>>
    ELSE LET r == ReadLoop(file.entities, <<>>)
         IN  IF r.raised THEN <<>> ELSE r.loaded_shapes

\* ------------------------------------------------------ file operations
FileNames == {"ext.dxf", "out.dxf"}
NoFile == [exists |-> FALSE, readable |-> FALSE, entities |-> <<>>]
DxfFile(ents) == [exists |-> TRUE, readable |-> TRUE, entities |-> ents]
None == ""

\* what the user types into the "Save As" dialog ("" when cancelled)
SaveInputs == {"", "out", "out.dxf"}

\* saveFileAs: "Add .dxf extension if not present"
WithDxfExtension(filename) == IF filename = "out" THEN "out.dxf" ELSE filename

\* MainWindow.saveFileAs as a function of the dialog answer and of whether
\* the write succeeds: [ok, current_file, disk]
SaveAsResult(filename, ioOk) ==
    IF filename # "" /\ ioOk
    THEN [ok |-> TRUE,
          current_file |-> WithDxfExtension(filename),
          disk |-> [disk EXCEPT ![WithDxfExtension(filename)] =
                       DxfFile(save_to_dxf_advanced(shapes))]]
    ELSE [ok |-> FALSE, current_file |-> current_file, disk |-> disk]

\* MainWindow.saveFile: [ok, current_file, disk]
SaveResult(filename, ioOk) ==
    IF current_file = None
    THEN SaveAsResult(filename, ioOk)
    ELSE IF ioOk
    THEN [ok |-> TRUE,
          current_file |-> current_file,
          disk |-> [disk EXCEPT ![current_file] = DxfFile(save_to_dxf_advanced(shapes))]]
    ELSE [ok |-> FALSE, current_file |-> current_file, disk |-> disk]

\* "if self.canvas.shapes and self.confirmSaveChanges(): self.saveFile()":
\* only the answer Save is truthy (Discard is False, Cancel is None)
AfterSavePrompt(reply, filename, ioOk) ==
    IF shapes # <<>> /\ reply = "Save"
    THEN SaveResult(filename, ioOk)
    ELSE [ok |-> FALSE, current_file |-> current_file, disk |-> disk]

canvasBuffers == <<drawingMode, current_shape, points, centerPoint, radius_point,
                   start_point, numSides, clicks>>

\* MainWindow.saveFile from the menu
saveFile(filename, ioOk) ==
    \E saved \in {SaveResult(filename, ioOk)} :
        /\ current_file' = saved.current_file
        /\ disk' = saved.disk
        /\ UNCHANGED <<shapes, alias, canvasBuffers, kernelVars, treeVars>>

\* MainWindow.saveFileAs from the menu
saveFileAs(filename, ioOk) ==
    \E saved \in {SaveAsResult(filename, ioOk)} :
        /\ current_file' = saved.current_file
        /\ disk' = saved.disk
        /\ UNCHANGED <<shapes, alias, canvasBuffers, kernelVars, treeVars>>

\* MainWindow.newFile
newFile(reply, filename, ioOk) ==
    /\ disk' = AfterSavePrompt(reply, filename, ioOk).disk
    /\ shapes' = <<>>
    /\ alias' = IF alias > 0 THEN 0 ELSE alias
    /\ current_file' = None
    /\ selected_at' = IF selected_at > 0 THEN -1 ELSE selected_at
    /\ UNCHANGED <<canvasBuffers, kernelVars, highlighted_shape_index>>

\* MainWindow.openDxfFile; openName is the answer of the "Open" dialog, which
\* names an existing file or is "" when cancelled
openDxfFile(reply, filename, ioOk, openName) ==
    \E saved \in {AfterSavePrompt(reply, filename, ioOk)} :
        /\ disk' = saved.disk
        /\ IF openName # ""
           THEN /\ saved.disk[openName].exists
                /\ \E loaded_shapes \in {read_from_dxf(saved.disk[openName])} :
                      /\ shapes' = loaded_shapes
                      /\ current_file' = IF loaded_shapes # <<>> THEN openName
                                         ELSE saved.current_file
                /\ alias' = IF alias > 0 THEN 0 ELSE alias
                /\ selected_at' = IF selected_at > 0 THEN -1 ELSE selected_at
           ELSE /\ current_file' = saved.current_file
                /\ UNCHANGED <<shapes, alias, selected_at>>
        /\ UNCHANGED <<canvasBuffers, kernelVars, highlighted_shape_index>>

\* ---------------------------------------------------------- specifications
NoDisk == [n \in FileNames |-> NoFile]

\* The window after construction: an empty drawing, no file
Init ==
    /\ CanvasInit
    /\ current_file = None
    /\ disk = NoDisk
    /\ call = NoCall
    /\ ret = NoReturn

\* The fixed-arity drawing tools driven by mouse and keyboard
Next ==
    \/ \E coord \in Clicks : mousePressLeft(coord, MinSides, TRUE, 0)
    \/ mousePressRight
    \/ \E coord \in Clicks : mouseMoveEvent(coord)
    \/ cancelCurrentShape
    \/ keyPressEscape
    \/ keyPressZ
    \/ \E mode \in FixedModes : setDrawingMode(mode)

Spec == Init /\ [][Next]_vars

\* The polygon and spline tools
VariableModes == Modes \ FixedModes

\* the dialog answers and hit tests that the current mode can ask for
SidesAnswers ==
    IF drawingMode \in {"polygon_inscribed", "polygon_circumscribed"} /\ centerPoint # NoPoint
    THEN SideChoices \X BOOLEAN
    ELSE {<<MinSides, TRUE>>}

\* get_closest_point(coord): the index of a control point the press is on, or
\* 0 (None) when it is on none
HitAnswers(coord) ==
    LET on == IF drawingMode = "spline_bezier" /\ current_shape.type = "BezierSpline"
              THEN {i \in 1..Len(current_shape.points) : current_shape.points[i] = coord}
              ELSE {}
    IN  IF on = {} THEN {0} ELSE on

NextVariable ==
    \/ \E coord \in Clicks, answer \in SidesAnswers : \E hit \in HitAnswers(coord) :
           mousePressLeft(coord, answer[1], answer[2], hit)
    \/ mousePressRight
    \/ \E coord \in Clicks : mouseMoveEvent(coord)
    \/ mouseReleaseEvent
    \/ keyPressEscape
    \/ keyPressZ
    \/ \E mode \in VariableModes : setDrawingMode(mode)

SpecVariable == Init /\ [][NextVariable]_vars

\* ------------------------------------------------ the file specification
\* Drawings the canvas tools produce from the click positions, one or two of
\* each class; the second three-point circle has collinear points.  The arcs
\* start and end on the axes, where Sin1000 and Cos1000 are exact.
SampleShapes ==
    {Line(<<0, 0>>, <<50, 50>>),
     Circle(<<50, 50>>, hypot(50, 50)),
     Rectangle([x |-> 0, y |-> 0, w |-> 100, h |-> 50]),
     CircleByThreePoints(<<<<0, 0>>, <<50, 50>>, <<100, 0>>>>),
     CircleByThreePoints(<<<<0, 0>>, <<50, 50>>, <<100, 100>>>>),
     ArcByThreePoints(<<<<0, 0>>, <<50, 50>>, <<100, 0>>>>),
     ArcByRadiusChord(<<100, 0>>, <<100, 100>>, <<0, 0>>),
     Polygon(<<<<0, 0>>, <<100, 0>>, <<100, 100>>>>),
     [BezierSpline(<<<<0, 0>>, <<50, 50>>, <<100, 0>>>>) EXCEPT !.is_completed = TRUE],
     SegmentSpline(<<<<0, 0>>, <<50, 50>>>>)}

\* Entities of DXF files written by other programs: supported ones, an
\* unsupported one (TEXT), short polylines, and one whose conversion raises.
SampleEntities ==
    {DxfLine(<<0, 0>>, <<50, 50>>),
     DxfCircle(<<50, 50>>, 50),
     DxfArc(<<50, 50>>, 50, 0, 90),
     [dxftype |-> "TEXT"],
     DxfLwPolyline(<<<<0, 0>>>>),
     DxfLwPolyline(<<<<0, 0>>, <<50, 50>>>>),
     DxfPolyline(<<<<0, 0>>, <<100, 0>>, <<100, 50>>, <<0, 50>>>>, TRUE),
     DxfPolyline(<<<<0, 0>>, <<100, 0>>, <<100, 50>>, <<0, 50>>, <<0, 0>>>>, TRUE),
     [dxftype |-> "SPLINE", control_points |-> <<<<0, 0>>, <<50, 50>>>>, fit_points |-> <<>>],
     [dxftype |-> "SPLINE", raises |-> TRUE]}

SeqsUpTo(S, n) == UNION {[1..k -> S] : k \in 0..n}

CorruptFile == [exists |-> TRUE, readable |-> FALSE, entities |-> <<>>]

\* A drawing in memory and one foreign file on disk, MaxItems shapes and
\* entities between them
InitFile ==
    /\ drawingMode = "line"
    /\ current_shape = NoShape
    /\ points = <<>>
    /\ centerPoint = NoPoint
    /\ radius_point = NoPoint
    /\ start_point = NoPoint
    /\ numSides = 0
    /\ alias = 0
    /\ clicks = 0
    /\ current_file = None
    /\ call = NoCall
    /\ ret = NoReturn
    /\ highlighted_shape_index = NoIndex
    /\ selected_at = 0
    /\ \E shs \in SeqsUpTo(SampleShapes, MaxItems) :
       \E file \in {NoFile, CorruptFile}
                       \cup {DxfFile(es) : es \in SeqsUpTo(SampleEntities, MaxItems - Len(shs))} :
          /\ shapes = shs
          /\ disk = [NoDisk EXCEPT !["ext.dxf"] = file]

\* The answers to the "Save As" dialog and the fate of the write:
\* <<filename, ioOk>>.  The dialog is shown only while the drawing has no
\* file, and a write can only fail once a file is named.
SaveAnswers ==
    IF current_file = None
    THEN (SaveInputs \X {TRUE}) \cup {<<"out", FALSE>>}
    ELSE {<<"", TRUE>>, <<"", FALSE>>}

\* The answers to "save changes?" with those of the save that follows:
\* <<reply, filename, ioOk>>.  The question is asked only of a non-empty
\* drawing, and only the answer Save goes on to save.
Replies ==
    IF shapes # <<>>
    THEN {<<"Save", a[1], a[2]>> : a \in SaveAnswers}
             \cup {<<"Discard", "", TRUE>>, <<"Cancel", "", TRUE>>}
    ELSE {<<"Discard", "", TRUE>>}

\* every file the "Open" dialog may name, and "" for a cancelled dialog
OpenInputs == FileNames \cup {""}

NextFile ==
    \/ \E r \in Replies : newFile(r[1], r[2], r[3])
    \/ \E r \in Replies, openName \in OpenInputs :
           openDxfFile(r[1], r[2], r[3], openName)
    \/ \E a \in SaveAnswers : saveFile(a[1], a[2])
    \/ \E a \in SaveInputs \X BOOLEAN : saveFileAs(a[1], a[2])

SpecFile == InitFile /\ [][NextFile]_vars

\* ---------------------------------------------------------- pen attributes
\* A colour (QColor) is a triple <<r, g, b>>; None is NoColor.  A thickness is
\* a whole number of thousandths of a millimetre, so that thickness_mm * 100
\* can have a fractional part for int() to cut off.
NoColor == <<>>
ByLayer == 256

\* standard_colors of convert_qcolor_to_aci, in the order of the dict
standard_colors ==
    <<[rgb |-> <<0, 0, 0>>, index |-> 0], [rgb |-> <<255, 0, 0>>, index |-> 1],
      [rgb |-> <<255, 255, 0>>, index |-> 2], [rgb |-> <<0, 255, 0>>, index |-> 3],
      [rgb |-> <<0, 255, 255>>, index |-> 4], [rgb |-> <<0, 0, 255>>, index |-> 5],
      [rgb |-> <<255, 0, 255>>, index |-> 6], [rgb |-> <<255, 255, 255>>, index |-> 7],
      [rgb |-> <<128, 128, 128>>, index |-> 8], [rgb |-> <<192, 192, 192>>, index |-> 9]>>

\* the square of the distance math.sqrt(...) of the loop; sqrt is strictly
\* increasing, so the squares compare as the distances do
distance_squared(c, d) ==
    (c[1] - d[1]) * (c[1] - d[1]) + (c[2] - d[2]) * (c[2] - d[2])
        + (c[3] - d[3]) * (c[3] - d[3])

RECURSIVE ClosestLoop(_, _, _, _)
\* the loop over standard_colors.items() from entry i on; min_distance is -1
\* for float('inf')
ClosestLoop(qcolor, i, min_distance, closest_index) ==
    IF i > Len(standard_colors)
    THEN closest_index
    ELSE LET dist == distance_squared(qcolor, standard_colors[i].rgb)
         IN  IF min_distance = -1 \/ dist < min_distance
             THEN ClosestLoop(qcolor, i + 1, dist, standard_colors[i].index)
             ELSE ClosestLoop(qcolor, i + 1, min_distance, closest_index)

\* a variant of convert_qcolor_to_aci without the search for the closest
\* colour: every other colour is white
convert_qcolor_to_aci_default(qcolor) ==
    IF qcolor = NoColor
    THEN ByLayer
    ELSE IF \E i \in 1..Len(standard_colors) : standard_colors[i].rgb = qcolor
    THEN standard_colors[CHOOSE i \in 1..Len(standard_colors) :
                             standard_colors[i].rgb = qcolor].index
    ELSE 7

\* convert_qcolor_to_aci(qcolor): 256 for None, the index of a palette
\* colour, or the index the loop finds
convert_qcolor_to_aci(qcolor) ==
    IF qcolor = NoColor
    THEN ByLayer
    ELSE IF \E i \in 1..Len(standard_colors) : standard_colors[i].rgb = qcolor
    THEN standard_colors[CHOOSE i \in 1..Len(standard_colors) :
                             standard_colors[i].rgb = qcolor].index
    ELSE ClosestLoop(qcolor, 1, -1, 7)

\* basic_aci_to_rgb of convert_aci_to_qcolor
basic_aci_to_rgb ==
    (0 :> <<0, 0, 0>>) @@ (1 :> <<255, 0, 0>>) @@ (2 :> <<255, 255, 0>>)
        @@ (3 :> <<0, 255, 0>>) @@ (4 :> <<0, 255, 255>>) @@ (5 :> <<0, 0, 255>>)
        @@ (6 :> <<255, 0, 255>>) @@ (7 :> <<255, 255, 255>>)
        @@ (8 :> <<128, 128, 128>>) @@ (9 :> <<192, 192, 192>>)

\* a variant of convert_aci_to_qcolor with the two greys exchanged
convert_aci_to_qcolor_greys(aci) ==
    IF aci = 8 THEN basic_aci_to_rgb[9]
    ELSE IF aci = 9 THEN basic_aci_to_rgb[8]
    ELSE IF aci \in DOMAIN basic_aci_to_rgb THEN basic_aci_to_rgb[aci]
    ELSE <<0, 0, 0>>

\* basic_aci_to_rgb.get(aci, (0, 0, 0))
convert_aci_to_qcolor(aci) ==
    IF aci \in DOMAIN basic_aci_to_rgb THEN basic_aci_to_rgb[aci] ELSE <<0, 0, 0>>

\* a dict without keys
NoAttributes == [k \in {} |-> 0]

\* a variant of LineTypeAttribute that writes dash_dot as DASHDOT2
LineTypeAttribute_merged(line_type) ==
    CASE line_type = "solid" -> "linetype" :> "CONTINUOUS"
      [] line_type = "dash" -> "linetype" :> "DASHED"
      [] line_type = "dash_dot" -> "linetype" :> "DASHDOT2"
      [] line_type = "dash_dot_dot" -> "linetype" :> "DASHDOT2"
      [] OTHER -> NoAttributes

\* the linetype chain of get_dxf_attributes and get_dxf_attributes_advanced
LineTypeAttribute(line_type) ==
    CASE line_type = "solid" -> "linetype" :> "CONTINUOUS"
      [] line_type = "dash" -> "linetype" :> "DASHED"
      [] line_type = "dash_dot" -> "linetype" :> "DASHDOT"
      [] line_type = "dash_dot_dot" -> "linetype" :> "DASHDOT2"
      [] OTHER -> NoAttributes

\* get_dxf_attributes(shape): the dxfattribs of the R12 profile
get_dxf_attributes(shape) ==
    ("color" :> convert_qcolor_to_aci(shape.color)) @@ LineTypeAttribute(shape.line_type)

\* the lineweights of DXF, in hundredths of a millimetre
std_thicknesses ==
    <<0, 5, 9, 13, 15, 18, 20, 25, 30, 35, 40, 50, 53, 60, 70, 80, 90, 100, 106, 120,
      140, 158, 200, 211>>

\* min(std_thicknesses, key=lambda x: abs(x - thickness_100mm)): the first
\* entry of the least key
closest_std(thickness_100mm) ==
    std_thicknesses[CHOOSE i \in 1..Len(std_thicknesses) :
        /\ \A j \in 1..(i - 1) :
               Abs(std_thicknesses[j] - thickness_100mm)
                   > Abs(std_thicknesses[i] - thickness_100mm)
        /\ \A j \in i..Len(std_thicknesses) :
               Abs(std_thicknesses[j] - thickness_100mm)
                   >= Abs(std_thicknesses[i] - thickness_100mm)]

\* get_dxf_attributes_advanced(shape): the dxfattribs of the R2000 profile;
\* int(thickness_mm * 100) cuts the thousandths off
get_dxf_attributes_advanced(shape) ==
    ("layer" :> "0")
        @@ ("color" :> convert_qcolor_to_aci(shape.color))
        @@ LineTypeAttribute(shape.line_type)
        @@ (IF shape.line_thickness > 0
            THEN "lineweight" :> closest_std(shape.line_thickness \div 10)
            ELSE NoAttributes)

\* Canvas.__init__: the pen of a new canvas
CanvasPen == [lineThickness |-> 1000, currentColor |-> <<20, 90, 160>>]

\* a variant of lineweight_to_thickness that takes the lineweight for tenths
lineweight_to_thickness_tenths(lineweight) == lineweight * 100

\* entity.dxf.lineweight / 100.0, in thousandths of a millimetre
lineweight_to_thickness(lineweight) == lineweight * 10

\* extract_dxf_attributes(entity, canvas): the pen of the decoded shape
extract_dxf_attributes(dxf, canvas) ==
    [line_type |->
         IF "linetype" \in DOMAIN dxf
         THEN CASE dxf.linetype = "CONTINUOUS" -> "solid"
                [] dxf.linetype = "DASHED" -> "dash"
                [] dxf.linetype = "DASHDOT" -> "dash_dot"
                [] dxf.linetype \in {"DASHDOT2", "DIVIDE"} -> "dash_dot_dot"
                [] OTHER -> "solid"
         ELSE "solid",
     line_thickness |->
         IF "lineweight" \in DOMAIN dxf /\ dxf.lineweight > 0
         THEN lineweight_to_thickness(dxf.lineweight)
         ELSE IF "thickness" \in DOMAIN dxf /\ dxf.thickness > 0
         THEN dxf.thickness
         ELSE canvas.lineThickness,
     color |->
         IF "color" \in DOMAIN dxf /\ dxf.color # ByLayer
         THEN convert_aci_to_qcolor(dxf.color)
         ELSE canvas.currentColor]

\* ------------------------------------- the functions called on their own
\* A call of one function of the codec or of the geometry kernel: Init draws
\* the function and its arguments, the action of the function returns the
\* result.
Returned(value) == [returned |-> TRUE, value |-> value]

Returns(fn, value) ==
    /\ call.fn = fn
    /\ ret = NoReturn
    /\ ret' = Returned(value)
    /\ UNCHANGED <<call, canvasBuffers, shapes, alias, fileVars, treeVars>>

\* LINE_TYPES of the main window
LINE_TYPES == {"solid", "dash", "dash_dot", "dash_dot_dot"}

\* standard_thicknesses of MainWindow.setLineThickness
standard_thicknesses == {0, 50, 90, 130, 150, 180, 200, 250, 300, 350, 400, 500, 700, 1000}

\* The thicknesses a user can give a shape: the spinner of the toolbar
\* (whole millimetres), the ISO list, and the tenths of a millimetre of the
\* dialogs of the objects tree
SettableThicknesses ==
    {1000 * t : t \in 1..SpinnerMax}
        \cup standard_thicknesses
        \cup {100 * k : k \in 1..(10 * SpinnerMax)}

\* The calls of the codec and of the solver, each function with the
\* arguments it is asked for:
\*  - the arc branches: the angles an arc reports, in degrees: negative,
\*    zero, positive, beyond a full turn;
\*  - convert_qcolor_to_aci: None, the pen of a new canvas, and a lattice
\*    that holds the palette and colours half way between two palette colours;
\*  - convert_aci_to_qcolor: the palette, the first index beyond it, ByLayer;
\*  - get_dxf_attributes(_advanced): pens of every line type and, in black,
\*    of every thickness a user can set and every thickness up to MaxFine
\*    thousandths that a DXF file can bring in;
\*  - extract_dxf_attributes: the attributes of entities of other programs;
\*  - save_to_dxf(_advanced): the sample drawings one shape at a time, a
\*    polygon whose last point repeats its first, a spline of two points;
\*  - the three-point solver: every triple of points of the click grid,
\*    coincident points included, and a list of two points;
\*  - draw_arc_radius_chord: every centre and chord end of the click grid
\*    and a list of one point, the dialog accepted or dismissed, the radius
\*    typed below, at and above the distance and above the spin box;
\*  - bezier_point: at t = 0, 1/4, 1/2, 3/4 and 1, every two control points
\*    of the click grid and the lists of three to MaxPts control points on
\*    the corners of one grid cell, coincident points included;
\*  - rotate_point: every point and pivot of the click grid, the multiples
\*    of 90 degrees up to MaxTurns half turns either way and the angles of
\*    the 3-4-5 triangle.
CodecCalls ==
    LET ArcAngles ==
            {90 * k : k \in (0 - MaxTurns * 4)..(MaxTurns * 4)} \cup {-1, 1, 359, 361}
        Levels == {0, 64, 128, 192, 255}
        Colours == {NoColor, CanvasPen.currentColor} \cup (Levels \X Levels \X Levels)
        AciInputs == 0..Len(standard_colors) \cup {ByLayer}
        Thicknesses == SettableThicknesses \cup (-1..MaxFine)
        Pens ==
            [color : {NoColor, <<255, 0, 0>>, CanvasPen.currentColor},
             line_type : LINE_TYPES, line_thickness : {CanvasPen.lineThickness}]
                \cup [color : {<<0, 0, 0>>}, line_type : {"solid"},
                      line_thickness : Thicknesses]
        ForeignAttributes ==
            {("linetype" :> l) @@ ("color" :> c) @@ ("lineweight" :> w) :
                l \in {"CONTINUOUS", "DASHED", "DASHDOT", "DASHDOT2", "DIVIDE",
                       "BYLAYER", "HIDDEN"},
                c \in {1, ByLayer},
                w \in {-1, 25}}
                \cup {NoAttributes, "thickness" :> 75}
        ExportedShapes ==
            SampleShapes
                \cup {Polygon(<<<<0, 0>>, <<100, 0>>, <<100, 100>>, <<0, 0>>>>),
                       BezierSpline(<<<<0, 0>>, <<50, 50>>>>)}
        Cells == {grid_size * i : i \in 0..MaxCell}
        PointTriples == [1..3 -> Cells \X Cells]
        PointPairs == [1..2 -> Cells \X Cells]
        ControlPoints ==
            UNION {[1..n -> {0, grid_size} \X {0, grid_size}] : n \in 3..MaxPts}
        Angles == {90 * k : k \in (0 - MaxTurns * 2)..(MaxTurns * 2)}
                      \cup {37, -37, 53, -53}
    IN  {[fn |-> "add_arc", start_angle |-> a, span_angle |-> s] :
                a \in ArcAngles, s \in ArcAngles}
            \cup {[fn |-> "convert_qcolor_to_aci", arg |-> c] : c \in Colours}
            \cup {[fn |-> "convert_aci_to_qcolor", arg |-> i] : i \in AciInputs}
            \cup {[fn |-> f, arg |-> p] :
                       f \in {"get_dxf_attributes", "get_dxf_attributes_advanced"},
                       p \in Pens}
            \cup {[fn |-> "extract_dxf_attributes", arg |-> d] : d \in ForeignAttributes}
            \cup {[fn |-> f, arg |-> <<shape>>] :
                       f \in {"save_to_dxf", "save_to_dxf_advanced"},
                       shape \in ExportedShapes}
            \cup {[fn |-> "calculate_arc_three_points", arg |-> t] : t \in PointTriples}
            \cup {[fn |-> "draw_arc_three_points", scene |-> <<>>, arg |-> t] :
                       t \in PointTriples \cup {<<<<0, 0>>, <<grid_size, 0>>>>}}
            \cup {[fn |-> "draw_arc_radius_chord", scene |-> <<>>, arg |-> t,
                    accepted |-> a, typed |-> r] :
                       t \in PointPairs \cup {<<<<0, 0>>>>},
                       a \in BOOLEAN,
                       r \in {0, grid_size, 2 * grid_size, 2 * RadiusMax}}
            \cup {[fn |-> "bezier_point", k |-> k, arg |-> c] :
                       k \in {(num_segments \div 4) * j : j \in 0..4},
                       c \in PointPairs \cup ControlPoints}
            \cup {[fn |-> "rotate_point", point |-> q, center |-> c, angle |-> a,
                    error |-> 0] :
                       q \in Cells \X Cells, c \in Cells \X Cells, a \in Angles}

InitCodec ==
    /\ CanvasInit
    /\ current_file = None
    /\ disk = NoDisk
    /\ call \in CodecCalls
    /\ ret = NoReturn

\* convert_dxf_to_shape(entity, canvas) on one entity
call_convert_dxf_to_shape ==
    Returns("convert_dxf_to_shape", convert_dxf_to_shape(call.arg))

\* the arc branch of save_to_dxf and save_to_dxf_advanced on an arc of radius
\* grid_size about the origin that reports call.start_angle, call.span_angle
call_add_arc ==
    Returns("add_arc", ArcEntity(<<0, 0>>, grid_size, call.start_angle, call.span_angle))

call_convert_qcolor_to_aci ==
    Returns("convert_qcolor_to_aci", convert_qcolor_to_aci(call.arg))

call_convert_aci_to_qcolor ==
    Returns("convert_aci_to_qcolor", convert_aci_to_qcolor(call.arg))

call_get_dxf_attributes ==
    Returns("get_dxf_attributes", get_dxf_attributes(call.arg))

call_get_dxf_attributes_advanced ==
    Returns("get_dxf_attributes_advanced", get_dxf_attributes_advanced(call.arg))

call_extract_dxf_attributes ==
    Returns("extract_dxf_attributes", extract_dxf_attributes(call.arg, CanvasPen))

call_save_to_dxf == Returns("save_to_dxf", save_to_dxf(call.arg))

call_save_to_dxf_advanced == Returns("save_to_dxf_advanced", save_to_dxf_advanced(call.arg))

call_calculate_arc_three_points ==
    Returns("calculate_arc_three_points", calculate_arc_three_points(call.arg))

call_draw_arc_three_points ==
    Returns("draw_arc_three_points", draw_arc_three_points(call.scene, call.arg))

call_draw_arc_radius_chord ==
    Returns("draw_arc_radius_chord",
            draw_arc_radius_chord(call.scene, call.arg, call.accepted, call.typed))

call_bezier_point == Returns("bezier_point", bezier_point(call.k, call.arg))

\* rotate_point in floats: the exact point and the bound of its error
call_rotate_point ==
    /\ call.fn = "rotate_point"
    /\ \E e \in RoundingError(call.point, call.center, call.angle, call.error) :
           Returns("rotate_point",
                   [point |-> rotate_point(call.point, call.center, call.angle),
                    error |-> e])

\* the point a rotation returned is rotated about the same pivot by the
\* opposite angle
rotateBack ==
    /\ call.fn = "rotate_point"
    /\ "original" \notin DOMAIN call
    /\ ret # NoReturn
    /\ call' = [fn |-> "rotate_point", point |-> ret.value.point,
                 center |-> call.center, angle |-> 0 - call.angle,
                 error |-> ret.value.error, original |-> call.point]
    /\ ret' = NoReturn
    /\ UNCHANGED <<canvasBuffers, shapes, alias, fileVars, treeVars>>

\* the entity that carries the attributes written is read again:
\* convert_dxf_to_shape begins with extract_dxf_attributes(entity, canvas)
readBack ==
    /\ call.fn \in {"get_dxf_attributes", "get_dxf_attributes_advanced"}
    /\ ret # NoReturn
    /\ call' = [fn |-> "extract_dxf_attributes", arg |-> ret.value,
                 pen |-> call.arg, profile |-> call.fn]
    /\ ret' = NoReturn
    /\ UNCHANGED <<canvasBuffers, shapes, alias, fileVars, treeVars>>

NextCodec ==
    \/ call_add_arc
    \/ call_convert_qcolor_to_aci
    \/ call_convert_aci_to_qcolor
    \/ call_get_dxf_attributes
    \/ call_get_dxf_attributes_advanced
    \/ call_extract_dxf_attributes
    \/ readBack
    \/ call_save_to_dxf
    \/ call_save_to_dxf_advanced
    \/ call_calculate_arc_three_points
    \/ call_draw_arc_three_points
    \/ call_draw_arc_radius_chord
    \/ call_bezier_point
    \/ call_rotate_point
    \/ rotateBack

SpecCodec == InitCodec /\ [][NextCodec]_vars

\* The calls of convert_dxf_to_shape on a polyline of four vertices: every
\* POLYLINE and LWPOLYLINE, open and closed, with its vertices on the grid
\* x = 0, 2, ..., 2 * MaxCoord and y = 0, 2, 4
PolylineCalls ==
    LET Vertices == {2 * i : i \in 0..MaxCoord} \X {0, 2, 4}
    IN  {[fn |-> "convert_dxf_to_shape",
          arg |-> [dxftype |-> t, vertices |-> v, closed |-> c]] :
            t \in {"POLYLINE", "LWPOLYLINE"}, v \in [1..4 -> Vertices], c \in BOOLEAN}

InitPolyline ==
    /\ CanvasInit
    /\ current_file = None
    /\ disk = NoDisk
    /\ call \in PolylineCalls
    /\ ret = NoReturn

SpecPolyline == InitPolyline /\ [][call_convert_dxf_to_shape]_vars

\* ------------------------------------------------------ the objects tree
\* ObjectTree.onTreeItemClicked: the item of shapes[index] was clicked
onTreeItemClicked(index) ==
    /\ index \in 1..Len(shapes)
    /\ highlighted_shape_index' = index
    /\ selected_at' = index
    /\ UNCHANGED <<shapes, alias, canvasBuffers, fileVars, kernelVars>>

\* ObjectTree.deleteShape: "Delete" of the context menu of the item of
\* shapes[index]; confirm is the answer Yes to the question
deleteShape(index, confirm) ==
    /\ index \in 1..Len(shapes)
    /\ IF confirm
       THEN /\ shapes' = SubSeq(shapes, 1, index - 1) \o SubSeq(shapes, index + 1, Len(shapes))
            /\ alias' = IF alias = index THEN 0
                        ELSE IF alias > index THEN alias - 1
                        ELSE alias
            /\ highlighted_shape_index' = NoIndex
            /\ selected_at' = 0
       ELSE UNCHANGED <<shapes, alias, treeVars>>
    /\ UNCHANGED <<canvasBuffers, fileVars, kernelVars>>

\* hasattr(shape, name)
hasattr(shape, name) == name \in DOMAIN shape

\* a variant of the choice of the rotation centre that looks at the point
\* list before the center attribute
rotation_center_points_first(shape) ==
    IF hasattr(shape, "points") /\ shape.points # <<>>
    THEN <<FloorDiv(SumTo([i \in 0..(Len(shape.points) - 1) |-> shape.points[i + 1][1]],
                          Len(shape.points) - 1), Len(shape.points)),
           FloorDiv(SumTo([i \in 0..(Len(shape.points) - 1) |-> shape.points[i + 1][2]],
                          Len(shape.points) - 1), Len(shape.points))>>
    ELSE IF hasattr(shape, "center")
    THEN shape.center
    ELSE NoPoint

\* "Determine rotation center" of rotateShape: the centre, or NoPoint when
\* the method returns without one
rotation_center(shape) ==
    IF hasattr(shape, "center")
    THEN shape.center
    ELSE IF hasattr(shape, "points") /\ shape.points # <<>>
    THEN <<FloorDiv(SumTo([i \in 0..(Len(shape.points) - 1) |-> shape.points[i + 1][1]],
                          Len(shape.points) - 1), Len(shape.points)),
           FloorDiv(SumTo([i \in 0..(Len(shape.points) - 1) |-> shape.points[i + 1][2]],
                          Len(shape.points) - 1), Len(shape.points))>>
    ELSE IF hasattr(shape, "start_point") /\ hasattr(shape, "end_point")
    THEN <<FloorDiv(shape.start_point[1] + shape.end_point[1], 2),
           FloorDiv(shape.start_point[2] + shape.end_point[2], 2)>>
    ELSE IF hasattr(shape, "rect")
    THEN <<shape.rect.x + FloorDiv(shape.rect.w, 2), shape.rect.y + FloorDiv(shape.rect.h, 2)>>
    ELSE NoPoint

\* shape.rotate_around_point(angle, center): the rotation applied to every
\* defining point of the shape; a rect keeps its sides parallel to the axes
\* and spans its rotated corners
rotate_around_point(shape, angle, center) ==
    [name \in DOMAIN shape |->
        CASE name \in {"center", "start_point", "end_point", "radius_point", "chord_point"}
                -> rotate_point(shape[name], center, angle)
          [] name = "points"
                -> [i \in 1..Len(shape.points) |-> rotate_point(shape.points[i], center, angle)]
          [] name = "rect"
                -> normalized(QRectFromPoints(rotate_point(topLeft(shape.rect), center, angle),
                                              rotate_point(bottomRight(shape.rect), center, angle)))
          [] OTHER -> shape[name]]

\* ObjectTree.rotateShape: "Rotate" of the context menu of the item of
\* shapes[index]; ok and angle are the answer of the angle dialog
rotateShape(index, ok, angle) ==
    /\ index \in 1..Len(shapes)
    /\ IF ok /\ rotation_center(shapes[index]) # NoPoint
       THEN shapes' = [shapes EXCEPT
                          ![index] = rotate_around_point(@, angle, rotation_center(@))]
       ELSE UNCHANGED shapes
    /\ UNCHANGED <<alias, canvasBuffers, fileVars, kernelVars, treeVars>>

\* The window with the objects tree.  At the start the drawing is empty or
\* holds one object, and ext.dxf holds a line and a circle.  The classes of
\* the shapes are not part of the sources, so which of the attributes
\* center, points, start_point and end_point, rect an object carries is left
\* open: the objects are those with every choice of them, their four
\* rotation centres all different, the point list once with three points
\* and once empty.
InitTree ==
    LET Attributes ==
            [center |-> {"center"}, points |-> {"points"},
             ends |-> {"start_point", "end_point"}, rect |-> {"rect"}]
        Everything(pts) ==
            [type |-> "Shape", center |-> <<0, 0>>, points |-> pts,
             start_point |-> <<0, 50>>, end_point |-> <<100, 50>>,
             rect |-> [x |-> 0, y |-> 0, w |-> 100, h |-> 200]]
        Object(pts, kinds) ==
            [name \in {"type"} \cup UNION {Attributes[k] : k \in kinds} |->
                Everything(pts)[name]]
        Objects ==
            {Object(pts, kinds) :
                pts \in {<<>>, <<<<50, 0>>, <<150, 0>>, <<100, 150>>>>},
                kinds \in SUBSET DOMAIN Attributes}
    IN  /\ drawingMode = "line"
        /\ current_shape = NoShape
        /\ points = <<>>
        /\ centerPoint = NoPoint
        /\ radius_point = NoPoint
        /\ start_point = NoPoint
        /\ numSides = 0
        /\ alias = 0
        /\ clicks = 0
        /\ highlighted_shape_index = NoIndex
        /\ selected_at = 0
        /\ current_file = None
        /\ disk = [NoDisk EXCEPT !["ext.dxf"] =
                      DxfFile(<<DxfLine(<<0, 0>>, <<50, 50>>), DxfCircle(<<50, 50>>, 50)>>)]
        /\ call = NoCall
        /\ ret = NoReturn
        /\ shapes \in {<<>>} \cup {<<object>> : object \in Objects}

\* The line tool on two points of the grid, undo, the objects tree with
\* rotations by quarter turns, New and Open without saving
NextTree ==
    \/ \E coord \in {<<0, 0>>, <<grid_size, grid_size>>} :
           mousePressLeft(coord, MinSides, TRUE, 0)
    \/ keyPressZ
    \/ \E index \in 1..Len(shapes) : onTreeItemClicked(index)
    \/ \E index \in 1..Len(shapes), confirm \in BOOLEAN : deleteShape(index, confirm)
    \/ \E index \in 1..Len(shapes), ok \in BOOLEAN, angle \in {90, 180, -90} :
           rotateShape(index, ok, angle)
    \/ \E r \in {q \in Replies : q[1] # "Save"} : newFile(r[1], r[2], r[3])
    \/ \E r \in {q \in Replies : q[1] # "Save"}, openName \in {"", "ext.dxf"} :
           openDxfFile(r[1], r[2], r[3], openName)

SpecTree == InitTree /\ [][NextTree]_vars

\* ------------------------------------------------------------------ claims
\* the construction buffers of the canvas
BuffersEmpty ==
    /\ points = <<>>
    /\ centerPoint = NoPoint
    /\ radius_point = NoPoint
    /\ start_point = NoPoint
    /\ current_shape = NoShape

\* C1: in circle_three_points and arc_three_points modes three collinear
\* clicks append no shape, so no three-point circle or arc whose points are
\* collinear is ever in the shape list.
C1_NoCollinearThreePointShape ==
    \A i \in 1..Len(shapes) :
        shapes[i].type \in {"CircleByThreePoints", "ArcByThreePoints"}
            => ~Collinear(shapes[i].points)

\* C5: every Circle appended by the circle_center_radius tool has radius > 0,
\* two clicks on the same point included.
C5_CircleRadiusPositive ==
    \A i \in 1..Len(shapes) : shapes[i].type = "Circle" => shapes[i].radius > 0

\* C7: after an explicit cancel (Escape, cancelCurrentShape, or a right click
\* that does not finish a polygon or spline) every construction buffer is
\* empty and the shape list is unchanged.
C7_CancelClearsBuffers ==
    [][(keyPressEscape \/ cancelCurrentShape \/ (~RightFinishes /\ mousePressRight))
           => (BuffersEmpty' /\ shapes' = shapes)]_vars

\* C6: in a fixed-arity mode a left click appends exactly one shape if and
\* only if it is the click that completes the point sequence of the mode
\* (clicks counts the left clicks since the construction began); every other
\* left click leaves the shape list unchanged, and after the completing click
\* the construction buffers are empty.
C6_AppendOnCompletingClick ==
    [][\A coord \in Clicks :
           (drawingMode \in FixedModes /\ mousePressLeft(coord, MinSides, TRUE, 0))
               => IF clicks + 1 = Arity(drawingMode)
                  THEN /\ Len(shapes') = Len(shapes) + 1
                       /\ SubSeq(shapes', 1, Len(shapes)) = shapes
                       /\ BuffersEmpty'
                  ELSE shapes' = shapes]_vars

\* C3: after any sequence of canvas events in spline_bezier mode every
\* BezierSpline in the shape list has at least 3 control points.
C3_SplineHasThreePoints ==
    \A i \in 1..Len(shapes) :
        shapes[i].type = "BezierSpline" => Len(shapes[i].points) >= 3

\* C2: when opening a DXF file fails (read_from_dxf returns an empty list)
\* the shape list after openDxfFile is the shape list before it.
C2_FailedOpenKeepsShapes ==
    [][\A r \in Replies, openName \in FileNames :
           (/\ openDxfFile(r[1], r[2], r[3], openName)
            /\ read_from_dxf(AfterSavePrompt(r[1], r[2], r[3]).disk[openName]) = <<>>)
               => shapes' = shapes]_vars

\* C4: every Polygon in the shape list has at least 3 points, the polygons
\* decoded from (LW)POLYLINE entities included.
C4_PolygonHasThreePoints ==
    \A i \in 1..Len(shapes) :
        shapes[i].type = "Polygon" => Len(shapes[i].points) >= 3

\* C10: a Rectangle encoded with the advanced profile and decoded again is a
\* Rectangle with the same top-left corner, width and height.
C10_RectangleRoundTrip ==
    \A i \in 1..Len(shapes) :
        shapes[i].type = "Rectangle"
            => /\ Len(advanced_entities(shapes[i])) = 1
               /\ convert_dxf_to_shape(advanced_entities(shapes[i])[1])
                      = Rectangle(shapes[i].rect)

RECURSIVE Flatten(_)
\* the concatenation of a sequence of sequences
Flatten(ss) == IF ss = <<>> THEN <<>> ELSE Head(ss) \o Flatten(Tail(ss))

\* a file that ezdxf reads and whose entities all convert without an error
Sound(file) ==
    /\ file.exists
    /\ file.readable
    /\ \A i \in 1..Len(file.entities) : ~Raises(file.entities[i])

\* what read_from_dxf loads from each entity of a sound file taken alone
LoadedAlone(entities) ==
    [i \in 1..Len(entities) |-> read_from_dxf(DxfFile(<<entities[i]>>))]

\* C8: persistence preserves order.  Each encoder emits at most one entity
\* per shape and the entities of the list are those of its shapes in list
\* order; read_from_dxf loads the shapes of the entities in file order; so
\* the shapes saved and loaded again are those each shape yields alone, in
\* the order of the saved list.
C8_OrderPreserved ==
    \E simple \in {[i \in 1..Len(shapes) |-> save_to_dxf(<<shapes[i]>>)]},
       advanced \in {[i \in 1..Len(shapes) |-> save_to_dxf_advanced(<<shapes[i]>>)]},
       all_simple \in {save_to_dxf(shapes)},
       all_advanced \in {save_to_dxf_advanced(shapes)} :
        /\ \A i \in 1..Len(shapes) : Len(simple[i]) <= 1 /\ Len(advanced[i]) <= 1
        /\ all_simple = Flatten(simple)
        /\ all_advanced = Flatten(advanced)
        /\ \A n \in FileNames :
              Sound(disk[n])
                  => read_from_dxf(disk[n]) = Flatten(LoadedAlone(disk[n].entities))
        /\ read_from_dxf(DxfFile(all_simple))
              = Flatten([i \in 1..Len(shapes) |-> read_from_dxf(DxfFile(simple[i]))])
        /\ read_from_dxf(DxfFile(all_advanced))
              = Flatten([i \in 1..Len(shapes) |-> read_from_dxf(DxfFile(advanced[i]))])

\* C8 happens: two different shapes were saved to out.dxf and loaded again,
\* and both came back
C8_Witness ==
    /\ current_file = "out.dxf"
    /\ Len(disk["out.dxf"].entities) = 2
    /\ shapes = read_from_dxf(disk["out.dxf"])
    /\ Len(shapes) = 2
    /\ shapes[1] # shapes[2]

\* the entity types convert_dxf_to_shape has a branch for
SupportedTypes == {"LINE", "CIRCLE", "ARC", "LWPOLYLINE", "POLYLINE", "SPLINE"}

\* an entity that is skipped: an unsupported type, or a polyline with fewer
\* than 2 vertices
Skipped(entity) ==
    \/ entity.dxftype \notin SupportedTypes
    \/ entity.dxftype \in {"LWPOLYLINE", "POLYLINE"} /\ Len(entity.vertices) < 2

\* C9: read_from_dxf never propagates an error.  When the file cannot be read
\* or converting an entity raises, the result is the empty list; otherwise a
\* skipped entity contributes nothing and the result is exactly the shapes of
\* the other entities, in file order.
C9_ReadIsTotal ==
    \A n \in FileNames :
        LET file == disk[n]
            kept == SelectSeq(file.entities, LAMBDA e : ~Skipped(e))
        IN  file.exists =>
               IF Sound(file)
               THEN /\ Len(read_from_dxf(file)) = Len(kept)
                    /\ \A i \in 1..Len(kept) :
                          read_from_dxf(file)[i] = convert_dxf_to_shape(kept[i])
               ELSE read_from_dxf(file) = <<>>

\* C9 happens: the user has opened a file whose first entity is skipped and
\* whose second converts, and the shape of the second is the drawing
C9_Witness ==
    \E n \in FileNames :
        /\ current_file = n
        /\ Len(disk[n].entities) = 2
        /\ Skipped(disk[n].entities[1])
        /\ ~Raises(disk[n].entities[2])
        /\ ~Skipped(disk[n].entities[2])
        /\ shapes = read_from_dxf(disk[n])
        /\ Len(shapes) = 1

\* ------------------------------------------- decoding 4-vertex polylines
\* the corner at q between the edges p-q and q-r is a right angle
RightAngle(p, q, r) ==
    (q[1] - p[1]) * (r[1] - q[1]) + (q[2] - p[2]) * (r[2] - q[2]) = 0

AllCornersRight(v) ==
    /\ RightAngle(v[1], v[2], v[3])
    /\ RightAngle(v[2], v[3], v[4])
    /\ RightAngle(v[3], v[4], v[1])
    /\ RightAngle(v[4], v[1], v[2])

\* the axis-aligned rectangle that bounds the vertices
BoundingRect(v) ==
    LET xs == {v[i][1] : i \in 1..Len(v)}
        ys == {v[i][2] : i \in 1..Len(v)}
        lo(S) == CHOOSE m \in S : \A n \in S : m <= n
        hi(S) == CHOOSE m \in S : \A n \in S : m >= n
    IN  [x |-> lo(xs), y |-> lo(ys), w |-> hi(xs) - lo(xs), h |-> hi(ys) - lo(ys)]

\* a 4-vertex polyline was decoded
DecodedFour ==
    /\ call.fn = "convert_dxf_to_shape"
    /\ ret # NoReturn
    /\ call.arg.dxftype \in {"POLYLINE", "LWPOLYLINE"}
    /\ Len(call.arg.vertices) = 4

\* a closed polyline whose last vertex repeats the first
ClosingDuplicate(e) == e.closed /\ e.vertices[1] = e.vertices[Len(e.vertices)]

\* C11 as stated: every 4-vertex polyline decodes to a Rectangle exactly
\* when all four cyclic corners are right angles, and otherwise to a Polygon
\* with the same 4 vertices.
C11_EveryFourVertexPolyline ==
    DecodedFour =>
        IF AllCornersRight(call.arg.vertices)
        THEN ret.value = Rectangle(BoundingRect(call.arg.vertices))
        ELSE ret.value = Polygon(call.arg.vertices)

\* C11 amended: every 4-vertex polyline that is not a closed polyline whose
\* last vertex repeats the first decodes to a Rectangle (the bounding box of
\* the vertices) exactly when all four cyclic corners are right angles, and
\* otherwise to a Polygon with the same 4 vertices.
C11_FourVertexPolyline ==
    (DecodedFour /\ ~ClosingDuplicate(call.arg)) =>
        IF AllCornersRight(call.arg.vertices)
        THEN ret.value = Rectangle(BoundingRect(call.arg.vertices))
        ELSE ret.value = Polygon(call.arg.vertices)

\* C11 happens: the polyline (0,0),(4,0),(4,2),(0,2) was decoded to the
\* Rectangle with top-left (0,0), width 4 and height 2
C11_Witness ==
    /\ DecodedFour
    /\ call.arg.vertices = <<<<0, 0>>, <<4, 0>>, <<4, 2>>, <<0, 2>>>>
    /\ ret.value = Rectangle([x |-> 0, y |-> 0, w |-> 4, h |-> 2])

\* ----------------------------------------------------- arcs on export
\* C12: for every start angle and span angle an arc reports (positive, zero,
\* negative or a multiple of 360) the emitted start angle is in [0, 360) and
\* the emitted end angle is strictly greater than the emitted start angle.
C12_EndAfterStart ==
    (call.fn = "add_arc" /\ ret # NoReturn)
        => /\ ret.value.start_angle >= 0
           /\ ret.value.start_angle < 360
           /\ ret.value.end_angle > ret.value.start_angle

\* -------------------------------------------------------- pen attributes
\* the ten colours of the palette
Palette == {standard_colors[i].rgb : i \in 1..Len(standard_colors)}

\* C13: the colour translation is a bijection on the 10-entry palette: a
\* palette colour converted to its index and back is the same colour, an
\* index 0..9 converted to its colour and back is the same index, and pure
\* red is index 1.
C13_PaletteBijection ==
    /\ (call.fn = "convert_qcolor_to_aci" /\ ret # NoReturn /\ call.arg \in Palette)
           => /\ ret.value \in 0..9
              /\ convert_aci_to_qcolor(ret.value) = call.arg
              /\ (call.arg = <<255, 0, 0>> <=> ret.value = 1)
    /\ (call.fn = "convert_aci_to_qcolor" /\ ret # NoReturn /\ call.arg \in 0..9)
           => /\ ret.value \in Palette
              /\ convert_qcolor_to_aci(ret.value) = call.arg
              /\ (call.arg = 1 <=> ret.value = <<255, 0, 0>>)

\* C13 happens: index 9 was converted to the light grey (192, 192, 192)
C13_Witness ==
    /\ call.fn = "convert_aci_to_qcolor"
    /\ call.arg = 9
    /\ ret # NoReturn
    /\ ret.value = <<192, 192, 192>>

\* the palette colour of an index, and the squared Euclidean distance of two
\* colours
PaletteColour(j) == standard_colors[j + 1].rgb
Apart(c, d) ==
    (c[1] - d[1]) ^ 2 + (c[2] - d[2]) ^ 2 + (c[3] - d[3]) ^ 2

\* C14: for every colour convert_qcolor_to_aci returns an index 0..9 whose
\* palette colour is at the least Euclidean distance from it, the first such
\* index in palette order when several are as near; a palette colour gets its
\* own index.
C14_NearestPaletteIndex ==
    (call.fn = "convert_qcolor_to_aci" /\ ret # NoReturn /\ call.arg # NoColor)
        => /\ ret.value \in 0..9
           /\ \A j \in 0..9 :
                 /\ Apart(call.arg, PaletteColour(j))
                        >= Apart(call.arg, PaletteColour(ret.value))
                 /\ j < ret.value
                        => Apart(call.arg, PaletteColour(j))
                               > Apart(call.arg, PaletteColour(ret.value))
           /\ call.arg \in Palette => PaletteColour(ret.value) = call.arg

\* C14 happens: (64, 64, 64), as far from black as from the grey
\* (128, 128, 128), was given index 0, the first of the two
C14_Witness ==
    /\ call.fn = "convert_qcolor_to_aci"
    /\ call.arg = <<64, 64, 64>>
    /\ Apart(call.arg, PaletteColour(0)) = Apart(call.arg, PaletteColour(8))
    /\ ret # NoReturn
    /\ ret.value = 0

\* attributes written by get_dxf_attributes or get_dxf_attributes_advanced
\* have been read back by extract_dxf_attributes
ReadBack ==
    /\ call.fn = "extract_dxf_attributes"
    /\ "pen" \in DOMAIN call
    /\ ret # NoReturn

\* C15: each of the line types solid, dash, dash_dot and dash_dot_dot written
\* by the attribute function of either profile and read back by
\* extract_dxf_attributes is the same line type, and an entity whose linetype
\* is not a recognised name (BYLAYER, or none at all) is read as solid.
C15_LineTypeRoundTrip ==
    /\ (ReadBack /\ call.pen.line_type \in {"solid", "dash", "dash_dot", "dash_dot_dot"})
           => ret.value.line_type = call.pen.line_type
    /\ (/\ call.fn = "extract_dxf_attributes"
         /\ ret # NoReturn
         /\ \/ "linetype" \notin DOMAIN call.arg
            \/ call.arg.linetype
                   \notin {"CONTINUOUS", "DASHED", "DASHDOT", "DASHDOT2", "DIVIDE"})
           => ret.value.line_type = "solid"

\* C15 happens: dash_dot written by the R12 attribute function was read back
\* as dash_dot
C15_Witness ==
    /\ ReadBack
    /\ call.profile = "get_dxf_attributes"
    /\ call.pen.line_type = "dash_dot"
    /\ call.arg.linetype = "DASHDOT"
    /\ ret.value.line_type = "dash_dot"

\* the entries of the standard lineweight table
StandardLineweights == {std_thicknesses[i] : i \in 1..Len(std_thicknesses)}

\* the entry w is a nearest entry of the table to a thickness of t thousandths
\* of a millimetre, the smaller one of two that are as near; an entry is in
\* hundredths, so its distance from t is taken in thousandths
NearestLineweight(w, t) ==
    /\ w \in StandardLineweights
    /\ \A e \in StandardLineweights :
          /\ Abs(10 * e - t) >= Abs(10 * w - t)
          /\ Abs(10 * e - t) = Abs(10 * w - t) => w <= e

\* a thickness a user can set was written by the advanced profile and read
\* back
ThicknessReadBack ==
    /\ ReadBack
    /\ call.profile = "get_dxf_attributes_advanced"
    /\ call.pen.line_thickness \in SettableThicknesses
    /\ call.pen.line_thickness > 0

\* C16 as stated: every thickness t > 0 a user can set, the 1..10 of the
\* toolbar included, written by get_dxf_attributes_advanced and read back by
\* extract_dxf_attributes is t again.
C16_ThicknessComesBack ==
    ThicknessReadBack => ret.value.line_thickness = call.pen.line_thickness

\* C16 amended: every thickness t > 0 a user can set, written by
\* get_dxf_attributes_advanced and read back by extract_dxf_attributes
\* (lineweight / 100), is the entry of the standard lineweight table nearest
\* to t * 100, in millimetres; it is t again exactly when t * 100 is an entry
\* of the table, which of the 1..10 of the toolbar holds for 1 and 2 only.
C16_ThicknessSnapsToTable ==
    ThicknessReadBack =>
        LET t == call.pen.line_thickness
            back == ret.value.line_thickness
        IN  /\ \E w \in StandardLineweights : back = 10 * w /\ NearestLineweight(w, t)
            /\ back = t <=> \E w \in StandardLineweights : t = 10 * w
            /\ t \in {1000 * k : k \in 1..SpinnerMax} => (back = t <=> t \in {1000, 2000})

\* C16 happens: the thickness 3 of the toolbar was written as lineweight 211
\* and read back as 2.11
C16_Witness ==
    /\ ThicknessReadBack
    /\ call.pen.line_thickness = 3000
    /\ call.arg.lineweight = 211
    /\ ret.value.line_thickness = 2110

\* C17: for every shape with thickness t > 0 the lineweight written by the
\* advanced profile is an entry of the standard lineweight table, no other
\* entry is strictly closer to t * 100, and of two entries as close the
\* smaller is written; a shape with thickness <= 0 gets no lineweight.
C17_NearestLineweight ==
    (call.fn = "get_dxf_attributes_advanced" /\ ret # NoReturn)
        => IF call.arg.line_thickness > 0
           THEN /\ "lineweight" \in DOMAIN ret.value
                /\ NearestLineweight(ret.value.lineweight, call.arg.line_thickness)
           ELSE "lineweight" \notin DOMAIN ret.value

\* ------------------------------------------------ polygons and splines
\* C18: in the simple (R12) profile every Rectangle and every Polygon with at
\* least 3 points is emitted as one polyline whose closed flag is set,
\* whether or not the last point of the polygon equals its first.
C18_SimpleProfileCloses ==
    (/\ call.fn = "save_to_dxf"
     /\ ret # NoReturn
     /\ \/ call.arg[1].type = "Rectangle"
        \/ call.arg[1].type = "Polygon" /\ Len(call.arg[1].points) >= 3)
        => /\ Len(ret.value) = 1
           /\ ret.value[1].dxftype = "POLYLINE"
           /\ ret.value[1].closed

\* C19: a BezierSpline with at least 2 control points encoded with the
\* advanced profile is one SPLINE entity whose control points are the points
\* of the spline in order, and that entity decodes to a BezierSpline with the
\* same control points.
C19_SplineRoundTrip ==
    (/\ call.fn = "save_to_dxf_advanced"
     /\ ret # NoReturn
     /\ call.arg[1].type = "BezierSpline"
     /\ Len(call.arg[1].points) >= 2)
        => /\ Len(ret.value) = 1
           /\ ret.value[1].dxftype = "SPLINE"
           /\ ret.value[1].control_points = call.arg[1].points
           /\ convert_dxf_to_shape(ret.value[1]).type = "BezierSpline"
           /\ convert_dxf_to_shape(ret.value[1]).points = call.arg[1].points

\* ------------------------------------------------- the three-point solver
\* P1, P2 and P3 lie on one line (two equal points included): the cross
\* product of P2 - P1 and P3 - P1 is zero
OnOneLine(t) ==
    (t[2][1] - t[1][1]) * (t[3][2] - t[1][2])
        - (t[2][2] - t[1][2]) * (t[3][1] - t[1][1]) = 0

\* C20: for all collinear P1, P2, P3 (two equal points included)
\* calculate_arc_three_points returns no centre, radius or angle and
\* draw_arc_three_points adds nothing to the scene; for points that are not
\* collinear the solver returns a centre and a positive radius, the distance
\* of P1 from the centre.
C20_CollinearHasNoArc ==
    /\ (call.fn = "calculate_arc_three_points" /\ ret # NoReturn)
           => IF OnOneLine(call.arg)
              THEN /\ ret.value.center = NoPoint
                   /\ ret.value.radius = NoNumber
                   /\ ret.value.start_angle = NoNumber
                   /\ ret.value.end_angle = NoNumber
              ELSE /\ ret.value.center \in Int \X Int
                   /\ ret.value.radius > 0
                   /\ ret.value.radius = distance(ret.value.center, call.arg[1])
    /\ (call.fn = "draw_arc_three_points" /\ ret # NoReturn
            /\ Len(call.arg) = 3 /\ OnOneLine(call.arg))
           => ret.value = call.scene

\* C20 happens: the solver was given (0,0), (50,50), (100,100) and returned
\* no centre
C20_Witness ==
    /\ call.fn = "calculate_arc_three_points"
    /\ call.arg = <<<<0, 0>>, <<grid_size, grid_size>>, <<2 * grid_size, 2 * grid_size>>>>
    /\ ret # NoReturn
    /\ ret.value.center = NoPoint

\* ------------------------------------------------- radius-chord arcs
\* C21: a radius-chord arc whose radius is smaller than the distance from
\* the centre to the chord end is never built: the three-click tool
\* arc_radius_chord appends no such arc to the shape list.
C21_NoArcBelowChordDistance ==
    \A i \in 1..Len(shapes) :
        shapes[i].type = "ArcByRadiusChord"
            => calculate_arc_rc(shapes[i]).radius
                   >= distance(shapes[i].center, shapes[i].chord_point)

\* C22: for every centre and chord end with an admissible radius, the
\* radius-chord construction draws the arc from chordAngle - 90 degrees to
\* chordAngle + 90 degrees, the half circle centred on the chord direction.
C22_HalfCircleAboutChord ==
    (/\ call.fn = "draw_arc_radius_chord"
     /\ ret # NoReturn
     /\ ret.value # <<>>)
        => LET center == call.arg[1]
               chord_end == call.arg[2]
               chordAngle == Atan2Deg(chord_end[2] - center[2], chord_end[1] - center[1])
               arc == ret.value[1]
           IN  /\ arc.start_angle = chordAngle - 90
               /\ arc.end_angle = chordAngle + 90

\* --------------------------------------------- the span of three-point arcs
\* C23: for three non-collinear points the span of the three-point arc that
\* the kernel reports and that is drawn lies in [0, 180] degrees: a span
\* (end - start) mod 360 above 180 has been replaced by the complementary arc.
C23_SpanAtMostHalfTurn ==
    /\ (/\ call.fn = "calculate_arc_three_points"
        /\ ret # NoReturn
        /\ ret.value.center # NoPoint)
           => (ret.value.end_angle - ret.value.start_angle) % 360 <= 180
    /\ (/\ call.fn = "draw_arc_three_points"
        /\ ret # NoReturn
        /\ ret.value # <<>>)
           => (ret.value[1].end_angle - ret.value[1].start_angle) % 360 <= 180

\* ------------------------------------------------------------- rotation
\* a rotation and the rotation back have returned
RoundTrip == call.fn = "rotate_point" /\ ret # NoReturn /\ "original" \in DOMAIN call

\* rotating by 0 degrees returns the point, rotating the pivot the pivot
FixedByRotation ==
    (call.fn = "rotate_point" /\ ret # NoReturn /\ "original" \notin DOMAIN call)
        => /\ call.angle = 0 => ret.value = [point |-> call.point, error |-> 0]
           /\ call.point = call.center => ret.value = [point |-> call.center, error |-> 0]

Coincident(pts) == \A i \in 1..Len(pts) : pts[i] = pts[1]

\* C25: for 2 control points P0, P1 and t in {0, 1/4, 1/2, 3/4, 1},
\* bezier_point(t) is P0 + t (P1 - P0); for any number of control points
\* bezier_point(0) is the first and bezier_point(1) the last of them; the
\* Bernstein weights sum to 1, so that control points that coincide in one
\* point give that point at every t.
C25_BezierInterpolates ==
    (call.fn = "bezier_point" /\ ret # NoReturn)
        => LET pts == call.arg
               P0 == pts[1]
               Pn == pts[Len(pts)]
           IN  /\ Len(pts) = 2
                     => ret.value
                          = <<P0[1] + FloorDiv(call.k * (Pn[1] - P0[1]), num_segments),
                              P0[2] + FloorDiv(call.k * (Pn[2] - P0[2]), num_segments)>>
               /\ call.k = 0 => ret.value = P0
               /\ call.k = num_segments => ret.value = Pn
               /\ Coincident(pts) => ret.value = P0

\* a quarter of the way from (0,0) to (100,50), and the middle of three
\* control points that coincide
C25_Witness ==
    /\ call.fn = "bezier_point"
    /\ ret # NoReturn
    /\ \/ /\ call.arg = <<<<0, 0>>, <<2 * grid_size, grid_size>>>>
          /\ 4 * call.k = num_segments
          /\ ret.value = <<25, 12>>
       \/ /\ Len(call.arg) = 3
          /\ Coincident(call.arg)
          /\ 2 * call.k = num_segments
          /\ ret.value = <<grid_size, grid_size>>

\* ------------------------------------------------ the unsaved-changes prompt
\* C28: when the user answers Cancel to the unsaved-changes prompt of New or
\* Open the operation is abandoned, the shape list and the current file are
\* unchanged; when the user answers Save and the save fails or is cancelled,
\* the shape list is not cleared.
C28_CancelAbandons ==
    [][\A r \in Replies, openName \in OpenInputs :
           (newFile(r[1], r[2], r[3]) \/ openDxfFile(r[1], r[2], r[3], openName))
               => /\ r[1] = "Cancel" => UNCHANGED <<shapes, current_file>>
                  /\ (r[1] = "Save" /\ ~SaveResult(r[2], r[3]).ok) => shapes' # <<>>]_vars

\* --------------------------------------- rectangles decoded from polylines
\* C27: whenever the decoder turns a 4-vertex polyline into a Rectangle, the
\* four corners of the rectangle are the four vertices of the polyline.
C27_RectangleHasTheVertices ==
    (DecodedFour /\ ret.value.type = "Rectangle")
        => {RectCorners(ret.value.rect)[i] : i \in 1..4}
               = {call.arg.vertices[i] : i \in 1..4}

\* ------------------------------------------------- rotation from the tree
\* the mean of the points of a list, the midpoint of two points
Centroid(pts) ==
    <<FloorDiv(SumTo([i \in 0..(Len(pts) - 1) |-> pts[i + 1][1]], Len(pts) - 1), Len(pts)),
      FloorDiv(SumTo([i \in 0..(Len(pts) - 1) |-> pts[i + 1][2]], Len(pts) - 1), Len(pts))>>

Midpoint(a, b) == <<FloorDiv(a[1] + b[1], 2), FloorDiv(a[2] + b[2], 2)>>

\* C26: rotateShape picks the pivot by a fixed priority: the center
\* attribute of the shape if it has one; otherwise the centroid of its
\* non-empty points list; otherwise the midpoint of start_point and
\* end_point; otherwise the centre of its rect; if none applies, or the angle
\* dialog is cancelled, the shape is left unchanged.
C26_PivotPriority ==
    [][\A index \in 1..Len(shapes), ok \in BOOLEAN, angle \in {90, 180, -90} :
           rotateShape(index, ok, angle)
               => LET shape == shapes[index]
                      by_center == hasattr(shape, "center")
                      by_points == /\ ~by_center
                                   /\ hasattr(shape, "points")
                                   /\ shape.points # <<>>
                      by_ends == /\ ~by_center
                                 /\ ~by_points
                                 /\ hasattr(shape, "start_point")
                                 /\ hasattr(shape, "end_point")
                      by_rect == /\ ~by_center
                                 /\ ~by_points
                                 /\ ~by_ends
                                 /\ hasattr(shape, "rect")
                      rotated(center) ==
                          [shapes EXCEPT ![index] = rotate_around_point(shape, angle, center)]
                  IN  /\ ~ok => shapes' = shapes
                      /\ (ok /\ by_center) => shapes' = rotated(shape.center)
                      /\ (ok /\ by_points) => shapes' = rotated(Centroid(shape.points))
                      /\ (ok /\ by_ends)
                            => shapes' = rotated(Midpoint(shape.start_point, shape.end_point))
                      /\ (ok /\ by_rect)
                            => shapes' = rotated(<<shape.rect.x + FloorDiv(shape.rect.w, 2),
                                                   shape.rect.y + FloorDiv(shape.rect.h, 2)>>)
                      /\ (~by_center /\ ~by_points /\ ~by_ends /\ ~by_rect)
                            => shapes' = shapes]_vars

\* an object with a center at (0,0) and three points after a quarter turn
\* about its center, and an object with only an empty point list and a rect
\* after a quarter turn about the centre (50,100) of the rect
C26_Witness ==
    \E i \in 1..Len(shapes) :
        \/ /\ hasattr(shapes[i], "center") /\ hasattr(shapes[i], "points")
           /\ shapes[i].center = <<0, 0>>
           /\ shapes[i].points = <<<<0, 50>>, <<0, 150>>, <<-150, 100>>>>
        \/ /\ DOMAIN shapes[i] = {"type", "points", "rect"}
           /\ shapes[i].points = <<>>
           /\ shapes[i].rect = [x |-> -50, y |-> 50, w |-> 200, h |-> 100]

\* ------------------------------------------------ the highlighted shape
\* C29: after any sequence of shape additions, tree selections, deletions,
\* undo (Z), New and Open, highlighted_shape_index is either None or a valid
\* index into the shape list that still refers to the shape the user
\* selected.
C29_HighlightRefersToSelection ==
    \/ highlighted_shape_index = NoIndex
    \/ /\ highlighted_shape_index \in 1..Len(shapes)
       /\ highlighted_shape_index = selected_at

\* -------------------------------------------------------------- undo
\* C30: undo is a single-step pop: pressing Z with a non-empty shape list
\* removes exactly the most recently appended shape and leaves every other
\* shape, their order, and the in-progress construction buffers unchanged;
\* pressing Z with an empty shape list changes nothing.
C30_UndoPopsLast ==
    [][keyPressZ
           => /\ shapes # <<>>
                    => /\ Len(shapes') = Len(shapes) - 1
                       /\ \A i \in 1..Len(shapes') : shapes'[i] = shapes[i]
              /\ UNCHANGED <<current_shape, points, centerPoint, radius_point,
                             start_point, numSides, drawingMode>>
              /\ shapes = <<>> => UNCHANGED vars]_vars

\* ext.dxf was opened, its second shape was selected in the tree, the first
\* point of a line was clicked, and Z removed the selected second shape: the
\* first shape stays and the first point of the line is still pending
C30_Witness ==
    /\ current_file = "ext.dxf"
    /\ Len(shapes) = 1
    /\ shapes[1].type = "Line"
    /\ highlighted_shape_index = 2
    /\ selected_at = -1
    /\ points = <<<<0, 0>>>>

====
